---- MODULE Spec2Model ----
(***************************************************************************)
(* EnhancedSystemMonitor (realTimeTools/EnhancedMonitor.py): the history   *)
(* buffers, the alert cooldown gate, the CSV export pass, the sampling     *)
(* loops and the start/stop lifecycle of the supervisor.                   *)
(*                                                                         *)
(* Specifications:                                                         *)
(*   Spec         one run of the supervisor: one start, its five threads,  *)
(*                stop calls in any state; loops are unbounded.            *)
(*   SpecRestart  lifecycle calls in any order (start may be called more   *)
(*                than once); thread steps are cut off after MaxLoopSteps. *)
(*   SpecHistory  appends to one history buffer (deque(maxlen=1000)).      *)
(*   SpecAlert    check_alert_conditions called by the one loop of a key.  *)
(*   SpecGate     check_alert_conditions called by the CPU loops that are  *)
(*                alive after a second start.                              *)
(*   SpecKeys     the calls of one loop (CPU, disk or network) to          *)
(*                check_alert_conditions, with their metrics and           *)
(*                thresholds.                                              *)
(*   SpecRerun    SpecRestart with every further start made after a        *)
(*                stop_monitoring call has returned.                       *)
(*   SpecStop     the disk loop's run with a stop_monitoring call that     *)
(*                keeps running once it has begun.                         *)
(*   SpecExport   the export loop and stop_monitoring with the time: the   *)
(*                sleeps, the bounded waits, the names of the files.       *)
(*   SpecRead     a read of a history buffer while its loop appends.       *)
(*   SpecDisk     the disk loop, partition by partition.                   *)
(*   SpecBank     BankAccount (线程同步与锁.py): two threads, one account. *)
(*   SpecScript   BankAccount with the two operation lists of the script.  *)
(*   SpecNet      the network loop: seed reading, warm-up sleep, rates.    *)
(*   SpecSample   one CPU loop, statement by statement, with the time.     *)
(*   SpecSamples  the CPU loops alive after a second start, with the time. *)
(*   SpecTools    SystemMonitor (realTimeTools/Tools.py): start_monitoring *)
(*                and stop_monitoring.                                     *)
(*   SpecWork     the producer, the four consumers and the main thread of  *)
(*                线程池与队列.py, with weak fairness of the threads.      *)
(*   SpecClient   APIClient._request (demo.py): attempts and back-off.     *)
(*   SpecLimiter  APIClient.rate_limiter: make_request calls with time.    *)
(***************************************************************************)
EXTENDS Integers, Sequences, FiniteSets, TLC

\* ---------------------------------------------------------------- bounds
MaxStarts == 2
MaxSamples == 2
MaxLoopSteps == 3
MaxAppends == 1002
MaxTime == 402
MaxClock == 250
MaxReadAppends == 3
MaxDiskPasses == 2
MaxOps == 2
MaxNetTime == 5
MaxNetBytes == 2
MaxNetSamples == 2
MaxSampleTime == 3
MaxToolsCalls == 2
NumTasks == 3
MaxRetries == 3
MaxLimiterTime == 4
MaxLimiterCalls == 4
MaxLimit == 2
MaxToolsIterations == 2

\* ------------------------------------------------------ program constants
\* deque(maxlen=1000)
HistoryMaxLen == 1000
\* default_config["cpu_warning_threshold"]
cpu_warning_threshold == 80
\* default_config["alert_settings"]["alert_cooldown_seconds"]
alert_cooldown_seconds == 300
\* default_config["data_export"]["enable_csv_export"]
enable_csv_export == TRUE
\* default_config["data_export"]["export_interval"], in seconds
export_interval == 60
\* thread.join(timeout=5), in seconds
join_timeout == 5

Kinds == {"cpu", "memory", "network", "disk"}
\* the partitions psutil.disk_partitions() lists in one pass
Partitions == {"sda1", "sdb1"}
\* readings of a percentage around the threshold
Values == {75, 80, 85, 90}
\* seconds that pass between two observations of the clock
TimeSteps == {100, 201, 300}
\* SpecExport measures time in ticks of half a second
TicksPerSecond == 2
\* ticks that pass between two observations of the clock
ClockSteps == {1, export_interval * TicksPerSecond}

VARIABLES
    monitoring,       \* self.monitoring
    monitor_threads,  \* self.monitor_threads: one record per spawned thread
    data_history,     \* self.data_history: kind -> deque of samples
    files,            \* the kinds a file was written for in the export directory
    stopPc,           \* position of the stop_monitoring call in progress
    call,             \* the last lifecycle call and how it ended
    starts,           \* start calls made so far
    steps,            \* thread steps taken (SpecRestart only)
    arrivals,         \* SpecHistory: every sample appended, in arrival order
    target,           \* SpecHistory: the buffer appended to
    now,              \* time.time(), in seconds
    alert_history,    \* self.alert_history: alert key -> time of the last alert
    callers,          \* the loops that evaluate the alert gate
    gate,             \* per caller: position in check_alert_conditions, locals
    lastGate,         \* the last check_alert_conditions call that returned
    recent,           \* the last three calls made with a value above the threshold
    notified,         \* times of the last two notifier invocations
                      \* (SpecKeys: time and partition)
    stop_events,      \* what the stop_monitoring call since the last start did
    clock,            \* SpecExport: the time, in ticks
    paths,            \* SpecExport: file path -> passes that opened it (2: two or more)
    wake,             \* SpecExport: thread -> time its sleep or wait ends
    joining,          \* SpecExport: index of the thread stop_monitoring waits for
    reader,           \* SpecRead: the read of a history buffer in progress
    diskPass,         \* SpecDisk: the pass of the disk loop over the partitions
    balance,          \* SpecBank: BankAccount.balance
    lock,             \* SpecBank: holder of BankAccount.lock, 0 when free
    users,            \* SpecBank: per thread, its operations and locals
    net,              \* SpecNet: the network loop's locals and the OS counters
    tools,            \* SpecTools: SystemMonitor (Tools.py), its flag and its call
    work,             \* SpecWork: the producer/consumer program (线程池与队列.py)
    client            \* SpecClient: APIClient (demo.py), the call in progress

mainVars == <<monitoring, monitor_threads, data_history, files, stopPc, call,
              starts>>
histVars == <<arrivals, target>>
gateVars == <<now, alert_history, callers, gate, lastGate, recent, notified>>
exportVars == <<clock, paths, wake, joining>>
readVars == <<reader>>
diskVars == <<diskPass>>
bankVars == <<balance, lock, users>>
extraVars == <<net, tools, work, client>>
restVars == <<exportVars, readVars, diskVars, bankVars, extraVars>>
vars == <<mainVars, stop_events, steps, histVars, gateVars, restVars>>

NoCall == [op |-> "none", misuse |-> FALSE, status |-> "returned"]

\* ------------------------------------------------------------ HistoryBuffer
\* deque.append on a deque with maxlen: a full deque drops its oldest (left)
\* element.
DequeAppendKeepOldest(d, x, maxlen) ==
    IF Len(d) < maxlen THEN Append(d, x) ELSE d

DequeAppend(d, x, maxlen) ==
    IF Len(d) < maxlen THEN Append(d, x) ELSE Append(Tail(d), x)

\* self.data_history[kind].append(sample)
RecordSample(kind, x) ==
    [data_history EXCEPT ![kind] = DequeAppend(@, x, HistoryMaxLen)]

RECURSIVE Repeat(_, _)
Repeat(x, n) == IF n = 0 THEN <<>> ELSE <<x>> \o Repeat(x, n - 1)

RECURSIVE AppendAll(_, _)
AppendAll(d, xs) ==
    IF xs = <<>> THEN d
    ELSE AppendAll(DequeAppend(d, Head(xs), HistoryMaxLen), Tail(xs))

Samples == Len(data_history["cpu"]) + Len(data_history["memory"])
           + Len(data_history["network"]) + Len(data_history["disk"])

\* ---------------------------------------------------------------- Exporter
\* The metrics export_data_to_csv has a branch for.
ExportedKinds == {"cpu", "memory"}

\* export_data_to_csv: returns at once when export is disabled; creates the
\* directory and opens the files without any handler, so an OS failure
\* (ioFault) leaves the call by an exception; otherwise writes one file per
\* non-empty buffer among those it has a branch for.
export_data_to_csv(ioFault) ==
    [written  |-> IF enable_csv_export /\ ~ioFault
                  THEN {k \in ExportedKinds : data_history[k] # <<>>}
                  ELSE {},
     raised   |-> enable_csv_export /\ ioFault]

\* Whether an OS query or a file operation fails.
Faults == BOOLEAN

\* ----------------------------------------------------------------- threads
Thread(kind, pc) == [kind |-> kind, pc |-> pc, waited |-> 0]

\* threads = [...]; thread.start(); self.monitor_threads.append(thread)
\* The network loop starts in its warm-up sleep, the others at their test of
\* self.monitoring.
NewThreads ==
    << Thread("cpu", "poll"), Thread("memory", "poll"),
       Thread("network", "warmup"), Thread("disk", "poll") >>
    \o (IF enable_csv_export THEN << Thread("export", "poll") >> ELSE << >>)

Alive(t) == monitor_threads[t].pc \notin {"done", "failed"}

SetPc(t, p) == [monitor_threads EXCEPT ![t].pc = p]

\* Entering a blocking call of one interval; waited counts the blocking calls
\* the thread entered while self.monitoring was already False.
EnterBlocking(t, p) ==
    [monitor_threads EXCEPT ![t].pc = p,
                            ![t].waited = @ + (IF monitoring THEN 0 ELSE 1)]

threadFrame == <<monitoring, stopPc, call, starts, stop_events, histVars,
                gateVars, restVars>>

\* while self.monitoring: (False) -> the loop and the thread end.
LoopExit(t) ==
    /\ monitor_threads[t].pc = "poll"
    /\ ~monitoring
    /\ monitor_threads' = SetPc(t, "done")
    /\ UNCHANGED <<threadFrame, data_history, files>>

\* monitor_cpu_enhanced: while self.monitoring: (True) -> cpu_percent(interval)
CpuPoll(t) ==
    /\ monitor_threads[t].kind = "cpu"
    /\ monitor_threads[t].pc = "poll"
    /\ monitoring
    /\ Samples < MaxSamples
    /\ monitor_threads' = SetPc(t, "measure")
    /\ UNCHANGED <<threadFrame, data_history, files>>

\* cpu_percent(interval=interval) returns after one interval, or raises into
\* the handler around the loop; next is cpu_percent(interval, percpu=True).
CpuMeasure(t) ==
    /\ monitor_threads[t].kind = "cpu"
    /\ monitor_threads[t].pc = "measure"
    /\ \E fault \in Faults :
        /\ monitor_threads' = IF fault THEN SetPc(t, "failed")
                              ELSE EnterBlocking(t, "percore")
    /\ UNCHANGED <<threadFrame, data_history, files>>

\* The per-core measurement returns after one more interval; the sample is
\* appended and the loop sleeps one interval.
CpuPerCore(t) ==
    /\ monitor_threads[t].kind = "cpu"
    /\ monitor_threads[t].pc = "percore"
    /\ \E fault \in Faults :
        /\ monitor_threads' = IF fault THEN SetPc(t, "failed")
                              ELSE EnterBlocking(t, "sleep")
        /\ data_history' = IF fault THEN data_history ELSE RecordSample("cpu", t)
    /\ UNCHANGED <<threadFrame, files>>

\* monitor_memory_enhanced / monitor_network_enhanced: one iteration up to its
\* sleep: the OS query (which may raise into the handler around the loop), the
\* append, time.sleep(interval).
SampleIterate(t) ==
    /\ monitor_threads[t].kind \in {"memory", "network"}
    /\ monitor_threads[t].pc = "poll"
    /\ monitoring
    /\ Samples < MaxSamples
    /\ \E fault \in Faults :
        /\ monitor_threads' = IF fault THEN SetPc(t, "failed")
                              ELSE EnterBlocking(t, "sleep")
        /\ data_history' = IF fault THEN data_history
                           ELSE RecordSample(monitor_threads[t].kind, t)
    /\ UNCHANGED <<threadFrame, files>>

\* monitor_disk_enhanced: one pass over the partitions. disk_partitions() may
\* raise into the handler around the loop; a partition whose disk_usage raises
\* is skipped by the inner handler, each readable one appends a sample.
DiskIterate(t) ==
    /\ monitor_threads[t].kind = "disk"
    /\ monitor_threads[t].pc = "poll"
    /\ monitoring
    /\ Samples < MaxSamples
    /\ \E fault \in Faults, readable \in SUBSET Partitions :
        /\ monitor_threads' = IF fault THEN SetPc(t, "failed")
                              ELSE EnterBlocking(t, "sleep")
        /\ data_history' =
              IF fault THEN data_history
              ELSE [data_history EXCEPT
                      !["disk"] = AppendAll(@, Repeat(t, Cardinality(readable)))]
    /\ UNCHANGED <<threadFrame, files>>

\* The network loop's seeding of the counters and its warm-up sleep end.
NetWarm(t) ==
    /\ monitor_threads[t].pc = "warmup"
    /\ \E fault \in Faults :
        /\ monitor_threads' = SetPc(t, IF fault THEN "failed" ELSE "poll")
    /\ UNCHANGED <<threadFrame, data_history, files>>

\* time.sleep(interval) returns: back to the test of self.monitoring.
LoopWake(t) ==
    /\ monitor_threads[t].kind \in Kinds
    /\ monitor_threads[t].pc = "sleep"
    /\ monitor_threads' = SetPc(t, "poll")
    /\ UNCHANGED <<threadFrame, data_history, files>>

\* _export_data_periodically: while self.monitoring: (True) -> sleep
ExportPoll(t) ==
    /\ monitor_threads[t].kind = "export"
    /\ monitor_threads[t].pc = "poll"
    /\ monitoring
    /\ monitor_threads' = SetPc(t, "sleep")
    /\ UNCHANGED <<threadFrame, data_history, files>>

\* time.sleep(export_interval) returns; if self.monitoring:
ExportRecheck(t) ==
    /\ monitor_threads[t].kind = "export"
    /\ monitor_threads[t].pc = "sleep"
    /\ monitor_threads' = SetPc(t, IF monitoring THEN "export" ELSE "poll")
    /\ UNCHANGED <<threadFrame, data_history, files>>

\* self.export_data_to_csv() in the export thread: an exception of the pass
\* is caught nowhere and ends the thread.
ExportRun(t) ==
    /\ monitor_threads[t].kind = "export"
    /\ monitor_threads[t].pc = "export"
    /\ \E fault \in Faults :
        LET pass == export_data_to_csv(fault) IN
        /\ files' = files \cup pass.written
        /\ monitor_threads' = SetPc(t, IF pass.raised THEN "failed" ELSE "poll")
    /\ UNCHANGED <<threadFrame, data_history>>

\* --------------------------------------------------------------- lifecycle
\* Lifecycle calls are issued one after the other: no start arrives while a
\* stop_monitoring call is in progress. A call may arrive in any state of the
\* supervisor.

\* start_comprehensive_monitoring up to the spawn of the threads: no test of
\* self.monitoring, no exception.
start_comprehensive_monitoring ==
    /\ stopPc = "idle"
    /\ monitoring' = TRUE
    /\ monitor_threads' = monitor_threads \o NewThreads
    /\ call' = [op |-> "start", misuse |-> monitoring, status |-> "returned"]
    /\ starts' = starts + 1
    /\ stop_events' = << >>
    /\ UNCHANGED <<data_history, files, stopPc, steps,
                   histVars, gateVars, restVars>>

\* stop_monitoring: self.monitoring = False
StopBeginClearing ==
    /\ stopPc = "idle"
    /\ monitoring' = FALSE
    /\ stopPc' = "join"
    /\ call' = [op |-> "stop", misuse |-> ~monitoring, status |-> "running"]
    /\ data_history' = [k \in Kinds |-> <<>>]
    /\ stop_events' = << "flag" >>
    /\ UNCHANGED <<monitor_threads, files, starts, steps,
                   histVars, gateVars, restVars>>

StopBegin ==
    /\ stopPc = "idle"
    /\ monitoring' = FALSE
    /\ stopPc' = "join"
    /\ call' = [op |-> "stop", misuse |-> ~monitoring, status |-> "running"]
    /\ stop_events' = << "flag" >>
    /\ UNCHANGED <<monitor_threads, data_history, files, starts,
                   steps, histVars, gateVars, restVars>>

\* The waits followed by an export pass of their own.
StopJoinExporting ==
    /\ stopPc = "join"
    /\ stopPc' = "export"
    /\ stop_events' = stop_events \o << "join", "export" >>
    /\ UNCHANGED <<monitoring, monitor_threads, data_history, files, call,
                   starts, steps, histVars, gateVars, restVars>>

\* The waits without their timeout: thread.join() returns only when the
\* thread has ended.
StopJoinUnbounded ==
    /\ stopPc = "join"
    /\ \A t \in DOMAIN monitor_threads : ~Alive(t)
    /\ stopPc' = "export"
    /\ stop_events' = Append(stop_events, "join")
    /\ UNCHANGED <<monitoring, monitor_threads, data_history, files, call,
                   starts, steps, histVars, gateVars, restVars>>

\* for thread in self.monitor_threads: if thread.is_alive():
\* thread.join(timeout=5). Each wait ends when its thread has ended or when
\* the five seconds are over, whichever comes first; the waits change nothing
\* but the time, so they are one step: the threads run before and after it.
StopJoin ==
    /\ stopPc = "join"
    /\ stopPc' = "export"
    /\ stop_events' = Append(stop_events, "join")
    /\ UNCHANGED <<monitoring, monitor_threads, data_history, files, call,
                   starts, steps, histVars, gateVars, restVars>>

\* What stop_monitoring does from its export pass on: the pass, then (unless
\* the pass raised) the statistics and self.logger.info("综合监控已停止").
StopTail(raised) == IF raised THEN << "export" >> ELSE << "export", "info" >>

\* self.export_data_to_csv(), the statistics, the log line, return. An
\* exception of the export pass leaves stop_monitoring.
StopFinish ==
    /\ stopPc = "export"
    /\ \E fault \in Faults :
        LET pass == export_data_to_csv(fault) IN
        /\ files' = files \cup pass.written
        /\ call' = [call EXCEPT !.status = IF pass.raised THEN "OSError"
                                           ELSE "returned"]
        /\ stop_events' = stop_events \o StopTail(pass.raised)
    /\ stopPc' = "idle"
    /\ UNCHANGED <<monitoring, monitor_threads, data_history, starts,
                   steps, histVars, gateVars, restVars>>

\* -------------------------------------------------------------- SpecExport
\* The export loop and stop_monitoring with the time: what the sleeps and the
\* bounded waits last, and the names of the files an export pass opens.

\* datetime.now().strftime("%Y%m%d_%H%M%S"): the time cut to the whole second.
Timestamp(t) == t \div TicksPerSecond

\* f"{export_dir}/{kind}_data_{timestamp}.csv"
FilePath(kind, t) == << kind, Timestamp(t) >>

\* open(path, 'w') for every file of a pass made at time t: the file is
\* created, or truncated when it exists.
OpenFiles(written, t) ==
    [p \in DOMAIN paths \cup {FilePath(k, t) : k \in written} |->
        IF p \notin DOMAIN paths THEN 1
        ELSE IF \E k \in written : p = FilePath(k, t) THEN 2
        ELSE paths[p]]

\* The time a sleep or a wait of the given seconds that begins now ends; a
\* time past MaxClock is never reached, so all such times are one.
Deadline(seconds) ==
    IF clock + seconds * TicksPerSecond > MaxClock THEN MaxClock + 1
    ELSE clock + seconds * TicksPerSecond

exportFrame == <<monitoring, stopPc, call, starts, stop_events, steps, histVars,
                 gateVars, readVars, diskVars, bankVars, extraVars>>

\* Time passes. Of the instants within one second, its start and its middle
\* are explored.
ClockTick2 ==
    /\ \E d \in ClockSteps :
        /\ clock + d <= MaxClock
        /\ d < TicksPerSecond => clock % TicksPerSecond = 0
        /\ clock' = clock + d
    /\ UNCHANGED <<mainVars, stop_events, steps, histVars, gateVars, paths, wake,
                   joining, readVars, diskVars, bankVars,
                   extraVars>>

\* while self.monitoring: (True) -> time.sleep(export_interval)
TimedExportPoll(t) ==
    /\ monitor_threads[t].kind = "export"
    /\ monitor_threads[t].pc = "poll"
    /\ monitoring
    /\ monitor_threads' = SetPc(t, "sleep")
    /\ wake' = [x \in DOMAIN wake \cup {t} |->
                  IF x = t THEN Deadline(export_interval) ELSE wake[x]]
    /\ UNCHANGED <<exportFrame, data_history, files, clock, paths, joining>>

\* the sleep is over; if self.monitoring:
TimedExportRecheck(t) ==
    /\ monitor_threads[t].kind = "export"
    /\ monitor_threads[t].pc = "sleep"
    /\ clock >= wake[t]
    /\ monitor_threads' = SetPc(t, IF monitoring THEN "export" ELSE "poll")
    /\ UNCHANGED <<exportFrame, data_history, files, exportVars>>

\* self.export_data_to_csv() in the export thread, at the time of the clock.
TimedExportRun(t) ==
    /\ monitor_threads[t].kind = "export"
    /\ monitor_threads[t].pc = "export"
    /\ \E fault \in Faults :
        LET pass == export_data_to_csv(fault) IN
        /\ files' = files \cup pass.written
        /\ paths' = OpenFiles(pass.written, clock)
        /\ monitor_threads' = SetPc(t, IF pass.raised THEN "failed" ELSE "poll")
    /\ UNCHANGED <<exportFrame, data_history, clock, wake, joining>>

\* for thread in self.monitor_threads: if thread.is_alive():
\* thread.join(timeout=5) -- the next thread of the list; past the last one
\* stop_monitoring goes on to its export pass.
JoinStep ==
    /\ stopPc = "join"
    /\ 0 \notin DOMAIN wake
    /\ LET i == joining + 1 IN
        IF i > Len(monitor_threads)
        THEN /\ stopPc' = "export"
             /\ joining' = 0
             /\ stop_events' = Append(stop_events, "join")
             /\ wake' = wake
        ELSE /\ joining' = i
             /\ wake' = IF Alive(i)
                        THEN [x \in DOMAIN wake \cup {0} |->
                                IF x = 0 THEN Deadline(join_timeout) ELSE wake[x]]
                        ELSE wake
             /\ UNCHANGED <<stopPc, stop_events>>
    /\ UNCHANGED <<monitoring, monitor_threads, data_history, files, call, starts,
                   steps, histVars, gateVars, clock, paths, readVars, diskVars,
                   bankVars, extraVars>>

\* thread.join(timeout=5) returns: the thread has ended or the five seconds
\* are over.
JoinReturn ==
    /\ stopPc = "join"
    /\ 0 \in DOMAIN wake
    /\ ~Alive(joining) \/ clock >= wake[0]
    /\ wake' = [x \in DOMAIN wake \ {0} |-> wake[x]]
    /\ UNCHANGED <<mainVars, stop_events, steps, histVars, gateVars, clock, paths,
                   joining, readVars, diskVars, bankVars,
                   extraVars>>

\* The final self.export_data_to_csv() of stop_monitoring, at the time of the
\* clock, and its return.
TimedStopFinish ==
    /\ stopPc = "export"
    /\ \E fault \in Faults :
        LET pass == export_data_to_csv(fault) IN
        /\ files' = files \cup pass.written
        /\ paths' = OpenFiles(pass.written, clock)
        /\ call' = [call EXCEPT !.status = IF pass.raised THEN "OSError"
                                           ELSE "returned"]
        /\ stop_events' = stop_events \o StopTail(pass.raised)
    /\ stopPc' = "idle"
    /\ UNCHANGED <<monitoring, monitor_threads, data_history, starts, steps,
                   histVars, gateVars, clock, wake, joining, readVars, diskVars,
                   bankVars, extraVars>>

\* ------------------------------------------------------------- SpecHistory
HistoryAppend ==
    /\ Len(arrivals) < MaxAppends
    /\ LET x == Len(arrivals) + 1 IN
        /\ arrivals' = Append(arrivals, x)
        /\ data_history' = RecordSample(target, x)
    /\ UNCHANGED <<monitoring, monitor_threads, files, stopPc, call, starts,
                   stop_events, steps, target, gateVars, restVars>>

\* ---------------------------------------------------------------- SpecDisk
\* The disk loop, partition by partition.

\* psutil.disk_partitions(): the partitions in the order they are listed.
PartitionList == << "sda1", "sdb1" >>

NoDiskPass == [pc |-> "idle", n |-> 0, todo |-> << >>, base |-> 0, failed |-> {}]

diskFrame == <<monitoring, files, stopPc, call, starts, stop_events, steps,
               histVars, gateVars, exportVars, readVars, bankVars, extraVars>>

\* while self.monitoring: (True) -> disk_partitions = psutil.disk_partitions(),
\* which may raise into the handler around the loop.
DiskList(t) ==
    /\ monitor_threads[t].kind = "disk"
    /\ monitor_threads[t].pc = "poll"
    /\ monitoring
    /\ diskPass.n < MaxDiskPasses
    /\ \E fault \in Faults :
        /\ monitor_threads' = SetPc(t, IF fault THEN "failed" ELSE "scan")
        /\ diskPass' = [pc |-> IF fault THEN "listfail" ELSE "scan",
                        n |-> diskPass.n + 1,
                        todo |-> IF fault THEN << >> ELSE PartitionList,
                        base |-> Len(data_history["disk"]),
                        failed |-> {}]
    /\ UNCHANGED <<diskFrame, data_history>>

\* A partition whose disk_usage raises ends the loop.
DiskUsageFatal(t) ==
    /\ monitor_threads[t].kind = "disk"
    /\ monitor_threads[t].pc = "scan"
    /\ diskPass.todo # << >>
    /\ \E fault \in Faults :
        /\ data_history' = IF fault THEN data_history
                           ELSE RecordSample("disk", Head(diskPass.todo))
        /\ diskPass' = [diskPass EXCEPT
                          !.todo = Tail(@),
                          !.failed = IF fault THEN @ \cup {Head(diskPass.todo)}
                                     ELSE @]
        /\ monitor_threads' = IF fault THEN SetPc(t, "failed")
                              ELSE monitor_threads
    /\ UNCHANGED diskFrame

\* for partition in disk_partitions: try: psutil.disk_usage(...), the append
\* of the sample; except Exception: the warning, and on to the next
\* partition.
DiskUsage(t) ==
    /\ monitor_threads[t].kind = "disk"
    /\ monitor_threads[t].pc = "scan"
    /\ diskPass.todo # << >>
    /\ \E fault \in Faults :
        /\ data_history' = IF fault THEN data_history
                           ELSE RecordSample("disk", Head(diskPass.todo))
        /\ diskPass' = [diskPass EXCEPT
                          !.todo = Tail(@),
                          !.failed = IF fault THEN @ \cup {Head(diskPass.todo)}
                                     ELSE @]
    /\ UNCHANGED <<diskFrame, monitor_threads>>

\* The pass over the partitions is over: time.sleep(interval).
DiskSleep(t) ==
    /\ monitor_threads[t].kind = "disk"
    /\ monitor_threads[t].pc = "scan"
    /\ diskPass.todo = << >>
    /\ monitor_threads' = EnterBlocking(t, "sleep")
    /\ diskPass' = [diskPass EXCEPT !.pc = "done"]
    /\ UNCHANGED <<diskFrame, data_history>>

\* ----------------------------------------------------------------- SpecNet
\* monitor_network_enhanced with the time (in ticks of half a second) and the
\* cumulative counter of psutil.net_io_counters(). The upload side is
\* followed; the download side is computed the same way from bytes_recv.

\* "monitor_interval": 1, or a configuration with 0
Intervals == {0, 1}

netFrame == <<monitoring, files, stopPc, call, starts, stop_events, steps,
              histVars, gateVars, exportVars, readVars, diskVars, bankVars,
              tools, work, client>>

\* The loop before its first statement; the counter and the clock of the OS.
NewNet(interval) ==
    [pc |-> "idle", interval |-> interval * TicksPerSecond,
     time |-> 0, bytes_sent |-> 0,
     last_bytes_sent |-> 0, last_time |-> 0, wake |-> 0,
     readings |-> << >>, flagAfterWarmup |-> TRUE]

\* psutil.net_io_counters() as the loop reads it.
NetReading == [t |-> net.time, bytes_sent |-> net.bytes_sent]

\* Time passes.
NetTime ==
    /\ net.pc # "idle" \/ starts = 1
    /\ net.time < MaxNetTime
    /\ net' = [net EXCEPT !.time = @ + 1]
    /\ UNCHANGED <<netFrame, monitor_threads, data_history>>

\* The host sends bytes.
NetTraffic ==
    /\ net.pc # "idle" \/ starts = 1
    /\ net.bytes_sent < MaxNetBytes
    /\ net' = [net EXCEPT !.bytes_sent = @ + 1]
    /\ UNCHANGED <<netFrame, monitor_threads, data_history>>

\* net_io = psutil.net_io_counters(); last_bytes_sent = ...; last_time =
\* time.time(); time.sleep(interval) begins. An exception of the query goes
\* to the handler around the loop.
NetSeed(t) ==
    /\ monitor_threads[t].kind = "network"
    /\ monitor_threads[t].pc = "warmup"
    /\ net.pc = "idle"
    /\ \E fault \in Faults :
        IF fault
        THEN /\ net' = [net EXCEPT !.pc = "failed"]
             /\ monitor_threads' = SetPc(t, "failed")
        ELSE /\ net' = [net EXCEPT !.pc = "warmup",
                                   !.last_bytes_sent = net.bytes_sent,
                                   !.last_time = net.time,
                                   !.wake = net.time + net.interval,
                                   !.readings = << NetReading >>]
             /\ UNCHANGED monitor_threads
    /\ UNCHANGED <<netFrame, data_history>>

\* The loop entered without the warm-up wait.
NetWarmSkip(t) ==
    /\ monitor_threads[t].kind = "network"
    /\ net.pc = "warmup"
    /\ net' = [net EXCEPT !.pc = "poll", !.flagAfterWarmup = monitoring]
    /\ monitor_threads' = SetPc(t, "poll")
    /\ UNCHANGED <<netFrame, data_history>>

\* time.sleep(interval) of the warm-up returns, one interval or more after
\* it began.
NetWarmEnd(t) ==
    /\ monitor_threads[t].kind = "network"
    /\ net.pc = "warmup"
    /\ net.time >= net.wake
    /\ net' = [net EXCEPT !.pc = "poll", !.flagAfterWarmup = monitoring]
    /\ monitor_threads' = SetPc(t, "poll")
    /\ UNCHANGED <<netFrame, data_history>>

\* while self.monitoring: (False)
NetExit(t) ==
    /\ monitor_threads[t].kind = "network"
    /\ net.pc = "poll"
    /\ ~monitoring
    /\ net' = [net EXCEPT !.pc = "done"]
    /\ monitor_threads' = SetPc(t, "done")
    /\ UNCHANGED <<netFrame, data_history>>

\* One iteration up to its sleep: the reading of the counters and of the
\* time, time_diff, bytes_sent_diff, upload_speed = bytes_sent_diff /
\* time_diff (ZeroDivisionError when time_diff is 0, caught by the handler
\* around the loop), the append of the sample, the update of last_*.
NetIterate(t) ==
    /\ monitor_threads[t].kind = "network"
    /\ net.pc = "poll"
    /\ monitoring
    /\ Len(data_history["network"]) < MaxNetSamples
    /\ \E fault \in Faults :
        LET time_diff == net.time - net.last_time
            bytes_sent_diff == net.bytes_sent - net.last_bytes_sent IN
        IF fault \/ time_diff = 0
        THEN /\ net' = [net EXCEPT !.pc = "failed"]
             /\ monitor_threads' = SetPc(t, "failed")
             /\ UNCHANGED data_history
        ELSE /\ data_history' =
                  RecordSample("network",
                               [bytes_sent_diff |-> bytes_sent_diff,
                                time_diff |-> time_diff,
                                reading |-> Len(net.readings) + 1])
             /\ net' = [net EXCEPT !.pc = "sleep",
                                   !.last_bytes_sent = net.bytes_sent,
                                   !.last_time = net.time,
                                   !.wake = net.time + net.interval,
                                   !.readings = Append(@, NetReading)]
             /\ monitor_threads' = SetPc(t, "sleep")
    /\ UNCHANGED netFrame

\* time.sleep(interval) at the end of an iteration returns.
NetWake(t) ==
    /\ monitor_threads[t].kind = "network"
    /\ net.pc = "sleep"
    /\ net.time >= net.wake
    /\ net' = [net EXCEPT !.pc = "poll"]
    /\ monitor_threads' = SetPc(t, "poll")
    /\ UNCHANGED <<netFrame, data_history>>

\* ---------------------------------------------------------------- SpecRead
\* Reads of a history buffer while its sampling loop appends to it: the
\* loop `for data in self.data_history[kind]` of an export pass and the list
\* comprehension `[d[...] for d in data]` of get_monitoring_summary. Both
\* iterate over the deque itself. A deque iterator remembers the deque's
\* mutation count and raises RuntimeError ("deque mutated during iteration")
\* at its next step when the count has changed; the count of the buffer is
\* the number of appends made to it, Len(arrivals).

\* `if data:` -- a deque is true when it is not empty.
AlwaysTruthy(d) == TRUE

Truthy(d) == d # << >>

RECURSIVE SeqSum(_)
SeqSum(xs) == IF xs = << >> THEN 0 ELSE Head(xs) + SeqSum(Tail(xs))

RECURSIVE SeqMin(_)
SeqMin(xs) ==
    IF Len(xs) = 1 THEN Head(xs)
    ELSE LET r == SeqMin(Tail(xs)) IN IF Head(xs) < r THEN Head(xs) ELSE r

RECURSIVE SeqMax(_)
SeqMax(xs) ==
    IF Len(xs) = 1 THEN Head(xs)
    ELSE LET r == SeqMax(Tail(xs)) IN IF Head(xs) > r THEN Head(xs) ELSE r

\* {'min': min(values), 'max': max(values), 'avg': sum(values) / len(values)}
\* min() of an empty list raises ValueError (and the division would raise
\* ZeroDivisionError); avg is the quotient sum / count, kept as the pair.
Stats(values) ==
    IF values = << >> THEN [error |-> "ValueError"]
    ELSE [min |-> SeqMin(values), max |-> SeqMax(values),
          avg |-> [sum |-> SeqSum(values), count |-> Len(values)]]

\* get_monitoring_summary, run with no append in between: the sample counts,
\* len(self.alert_history), and a statistics block for every metric whose
\* buffer passes `if data:`.
get_monitoring_summary ==
    [data_points |-> [k \in Kinds |-> Len(data_history[k])],
     alerts_triggered |-> Cardinality(DOMAIN alert_history),
     stats |-> [k \in {m \in Kinds : Truthy(data_history[m])} |->
                  Stats(data_history[k])]]

readFrame == <<monitoring, monitor_threads, files, stopPc, call, starts,
               stop_events, steps, gateVars, exportVars, diskVars, bankVars,
               extraVars>>

\* The sampling loop of the buffer appends a sample.
ReadAppend ==
    /\ Len(arrivals) < MaxReadAppends
    /\ HistoryAppend
    /\ UNCHANGED reader

\* `if data:` is true and the iteration begins: export_data_to_csv (for the
\* metrics it exports) or get_monitoring_summary creates the iterator.
ReadBegin(who) ==
    /\ reader.pc = "idle"
    /\ who = "export" => target \in ExportedKinds
    /\ Truthy(data_history[target])
    /\ reader' = [pc |-> "iter", who |-> who, state |-> Len(arrivals),
                  content |-> data_history[target], seen |-> << >>]
    /\ UNCHANGED <<readFrame, data_history, histVars>>

\* next(iterator): RuntimeError when the deque was mutated since the
\* iterator was created, the end of the loop when every element was
\* yielded, the next element otherwise.
ReadNext ==
    /\ reader.pc = "iter"
    /\ reader' =
          IF Len(arrivals) # reader.state
          THEN [reader EXCEPT !.pc = "RuntimeError"]
          ELSE IF Len(reader.seen) = Len(data_history[target])
          THEN [reader EXCEPT !.pc = "done"]
          ELSE [reader EXCEPT
                  !.seen = Append(@, data_history[target][Len(reader.seen) + 1])]
    /\ UNCHANGED <<readFrame, data_history, histVars>>

\* The reading call is over.
ReadEnd ==
    /\ reader.pc \in {"done", "RuntimeError"}
    /\ reader' = [pc |-> "idle"]
    /\ UNCHANGED <<readFrame, data_history, histVars>>

\* --------------------------------------------------------------- AlertGate
\* The key made of the metric alone.
AlertKeyMetricOnly(metric, threshold) == <<metric, 0>>

\* alert_key = f"{metric}_{threshold}"
AlertKey(metric, threshold) == <<metric, threshold>>

\* if alert_key in self.alert_history:
\*     if current_time - last_alert_time < cooldown: return False
CooldownNeverEnds(hist, key, current_time) == key \in DOMAIN hist

\* The test with <= in the place of <.
CooldownActiveInclusive(hist, key, current_time) ==
    /\ key \in DOMAIN hist
    /\ current_time - hist[key] <= alert_cooldown_seconds

CooldownActive(hist, key, current_time) ==
    /\ key \in DOMAIN hist
    /\ current_time - hist[key] < alert_cooldown_seconds

\* if value > threshold:
BreachOrEqual(value, threshold) == value >= threshold

Breach(value, threshold) == value > threshold

\* self.alert_history[alert_key] = current_time
RecordAlert(hist, key, current_time) ==
    [k \in DOMAIN hist \cup {key} |-> IF k = key THEN current_time ELSE hist[k]]

IdleGate == [pc |-> "idle", value |-> 0, current_time |-> 0]
NoGate == [done |-> FALSE, value |-> 0, t |-> 0, ret |-> FALSE, cool |-> "none"]
CpuKey == AlertKey("cpu", cpu_warning_threshold)

LastN(s, n) == IF Len(s) <= n THEN s ELSE SubSeq(s, Len(s) - n + 1, Len(s))

gateFrame == <<mainVars, stop_events, steps, histVars, callers, restVars>>

\* time passes between two calls; check_alert_conditions itself does not
\* block, so no time passes while a call is in progress.
ClockTick ==
    /\ \A c \in callers : gate[c].pc = "idle"
    /\ \E d \in TimeSteps :
        /\ now + d <= MaxTime
        /\ now' = now + d
    /\ UNCHANGED <<gateFrame, alert_history, gate, lastGate, recent, notified>>

\* A CPU loop calls check_alert_conditions('cpu', value, threshold):
\* current_time = time.time()
GateEnter(c, value) ==
    /\ gate[c].pc = "idle"
    /\ gate' = [gate EXCEPT ![c] = [pc |-> "check", value |-> value,
                                    current_time |-> now]]
    /\ UNCHANGED <<gateFrame, now, alert_history, lastGate, recent, notified>>

\* The call of caller c returns ret; on True the loop logs the warning and
\* calls play_alert_sound.
GateReturn(c, ret) ==
    /\ gate' = [gate EXCEPT ![c] = IdleGate]
    /\ lastGate' = [done |-> TRUE, value |-> gate[c].value,
                    t |-> gate[c].current_time, ret |-> ret,
                    cool |-> IF CpuKey \notin DOMAIN alert_history THEN "none"
                             ELSE IF CooldownActive(alert_history, CpuKey,
                                                    gate[c].current_time)
                                  THEN "active" ELSE "expired"]
    /\ recent' = IF gate[c].value > cpu_warning_threshold
                 THEN LastN(Append(recent,
                                   [t |-> gate[c].current_time,
                                    value |-> gate[c].value,
                                    ret |-> ret,
                                    first |-> notified = << >>]), 3)
                 ELSE recent
    /\ notified' = IF ret THEN LastN(Append(notified, now), 2) ELSE notified

\* The cooldown test, a suppressed call recording its own time.
GateCheckExtending(c) ==
    /\ gate[c].pc = "check"
    /\ IF CooldownActive(alert_history, CpuKey, gate[c].current_time)
       THEN /\ alert_history' = RecordAlert(alert_history, CpuKey,
                                            gate[c].current_time)
            /\ GateReturn(c, FALSE)
       ELSE /\ gate' = [gate EXCEPT ![c].pc = "decide"]
            /\ UNCHANGED <<lastGate, recent, notified, alert_history>>
    /\ UNCHANGED <<gateFrame, now>>

\* The cooldown test.
GateCheck(c) ==
    /\ gate[c].pc = "check"
    /\ IF CooldownActive(alert_history, CpuKey, gate[c].current_time)
       THEN GateReturn(c, FALSE)
       ELSE /\ gate' = [gate EXCEPT ![c].pc = "decide"]
            /\ UNCHANGED <<lastGate, recent, notified>>
    /\ UNCHANGED <<gateFrame, now, alert_history>>

\* The alert time recorded whether or not the value is above the threshold.
GateDecideRecording(c) ==
    /\ gate[c].pc = "decide"
    /\ alert_history' = RecordAlert(alert_history, CpuKey, gate[c].current_time)
    /\ GateReturn(c, Breach(gate[c].value, cpu_warning_threshold))
    /\ UNCHANGED <<gateFrame, now>>

\* The threshold test and the record of the alert time.
GateDecide(c) ==
    /\ gate[c].pc = "decide"
    /\ IF Breach(gate[c].value, cpu_warning_threshold)
       THEN /\ alert_history' = RecordAlert(alert_history, CpuKey,
                                            gate[c].current_time)
            /\ GateReturn(c, TRUE)
       ELSE /\ UNCHANGED alert_history
            /\ GateReturn(c, FALSE)
    /\ UNCHANGED <<gateFrame, now>>

\* check_alert_conditions as one call made at time t: the returned value and
\* the cooldown map after it.
check_alert_conditions(hist, metric, value, threshold, t) ==
    LET key == AlertKey(metric, threshold) IN
    IF CooldownActive(hist, key, t) THEN [ret |-> FALSE, hist |-> hist]
    ELSE IF Breach(value, threshold)
         THEN [ret |-> TRUE, hist |-> RecordAlert(hist, key, t)]
         ELSE [ret |-> FALSE, hist |-> hist]

\* -------------------------------------------------------------- SpecSample
\* An iteration of a sampling loop from its measurement to its alert test,
\* statement by statement, with the time. The CPU loop is followed; the
\* memory, network and disk loops append and test in the same order. The
\* callers are the loops that append to the one buffer.

sampleFrame == <<monitoring, monitor_threads, files, stopPc, call, starts,
                 stop_events, steps, histVars, callers, recent, notified,
                 restVars>>

\* Time passes.
SampleTick ==
    /\ now < MaxSampleTime
    /\ now' = now + 1
    /\ UNCHANGED <<sampleFrame, data_history, alert_history, gate, lastGate>>

\* cpu_percent = psutil.cpu_percent(interval=interval) returns a value.
SampleMeasure(c, value) ==
    /\ gate[c].pc = "idle"
    /\ Len(data_history["cpu"]) < MaxSamples
    /\ gate' = [gate EXCEPT ![c] = [pc |-> "measured", value |-> value,
                                    current_time |-> 0]]
    /\ UNCHANGED <<sampleFrame, now, data_history, alert_history, lastGate>>

\* 'timestamp': datetime.now(), evaluated while the sample is built.
SampleStamp(c) ==
    /\ gate[c].pc = "measured"
    /\ gate' = [gate EXCEPT ![c].pc = "stamped", ![c].current_time = now]
    /\ UNCHANGED <<sampleFrame, now, data_history, alert_history, lastGate>>

\* self.data_history['cpu'].append({...})
SampleAppend(c) ==
    /\ gate[c].pc = "stamped"
    /\ data_history' = RecordSample("cpu", [timestamp |-> gate[c].current_time,
                                            cpu_percent |-> gate[c].value,
                                            loop |-> c])
    /\ gate' = [gate EXCEPT ![c].pc = "appended"]
    /\ UNCHANGED <<sampleFrame, now, alert_history, lastGate>>

\* The alert test made whether or not the sample has been appended.
SampleAlertEarly(c) ==
    /\ gate[c].pc \in {"stamped", "appended"}
    /\ LET r == check_alert_conditions(alert_history, "cpu", gate[c].value,
                                       cpu_warning_threshold, now) IN
       /\ alert_history' = r.hist
       /\ lastGate' = [done |-> TRUE, loop |-> c, value |-> gate[c].value,
                       t |-> now, ret |-> r.ret,
                       buffer |-> data_history["cpu"]]
    /\ gate' = [gate EXCEPT ![c] = IdleGate]
    /\ UNCHANGED <<sampleFrame, now, data_history>>

\* if self.check_alert_conditions('cpu', cpu_percent, ...): after the append;
\* then time.sleep(interval) and the next iteration.
SampleAlert(c) ==
    /\ gate[c].pc = "appended"
    /\ LET r == check_alert_conditions(alert_history, "cpu", gate[c].value,
                                       cpu_warning_threshold, now) IN
       /\ alert_history' = r.hist
       /\ lastGate' = [done |-> TRUE, loop |-> c, value |-> gate[c].value,
                       t |-> now, ret |-> r.ret,
                       buffer |-> data_history["cpu"]]
    /\ gate' = [gate EXCEPT ![c] = IdleGate]
    /\ UNCHANGED <<sampleFrame, now, data_history>>

\* ---------------------------------------------------------------- SpecKeys
\* The calls the loops of one run make to check_alert_conditions. Each key is
\* evaluated by the one loop of its metric, one call after the other, so a
\* call is one step.

\* "disk_warning_threshold": 90
disk_warning_threshold == 90
\* "network_speed_warning": 100 * 1024 * 1024
network_speed_warning == 100 * 1024 * 1024
\* self.config['cpu_warning_threshold'] before and after a change of the
\* configuration
Thresholds == {cpu_warning_threshold, 90}
\* readings of a percentage around both thresholds
KeyValues == Values \cup {95}
\* upload and download speeds around the threshold, in bytes per second
Speeds == {0, network_speed_warning, network_speed_warning + 1}
\* the loops that call check_alert_conditions with a literal metric name
AlertLoops == {"cpu", "disk", "network"}

GateCall(metric, value, threshold, ret) ==
    [metric |-> metric, value |-> value, threshold |-> threshold, ret |-> ret]

\* What an iteration's alert test leaves behind: the cooldown map after its
\* check_alert_conditions calls and, if the condition of the if statement was
\* True, one logger.warning and one play_alert_sound.
AlertOutcome(loop, part, inputs, calls, hist) ==
    LET fired == \E i \in DOMAIN calls : calls[i].ret IN
    /\ alert_history' = hist
    /\ lastGate' = [done |-> TRUE, loop |-> loop, part |-> part,
                    inputs |-> inputs, calls |-> calls, t |-> now,
                    before |-> alert_history,
                    notifications |-> IF fired THEN 1 ELSE 0]
    /\ notified' = IF fired
                   THEN LastN(Append(notified, [t |-> now, part |-> part]), 2)
                   ELSE notified
    /\ UNCHANGED <<gateFrame, now, gate, recent>>

\* monitor_cpu_enhanced:
\* if self.check_alert_conditions('cpu', cpu_percent,
\*                                self.config['cpu_warning_threshold']):
CpuAlert(value, threshold) ==
    /\ "cpu" \in callers
    /\ LET r == check_alert_conditions(alert_history, "cpu", value,
                                       threshold, now) IN
       AlertOutcome("cpu", "", << value >>,
                    << GateCall("cpu", value, threshold, r.ret) >>, r.hist)

\* A metric name of its own for each partition.
DiskMetricPerPartition(partition) == partition

\* The metric name the disk loop passes for every partition.
DiskMetric(partition) == "disk"

\* monitor_disk_enhanced, for the partition at hand:
\* if self.check_alert_conditions('disk', disk_percent,
\*                                self.config['disk_warning_threshold']):
DiskAlert(partition, value) ==
    /\ "disk" \in callers
    /\ LET r == check_alert_conditions(alert_history, DiskMetric(partition),
                                       value, disk_warning_threshold, now) IN
       AlertOutcome("disk", partition, << value >>,
                    << GateCall(DiskMetric(partition), value,
                                disk_warning_threshold, r.ret) >>,
                    r.hist)

\* Both checks evaluated in every iteration.
NetworkAlertEager(upload_speed, download_speed) ==
    /\ "network" \in callers
    /\ LET up == check_alert_conditions(alert_history, "network_upload",
                                        upload_speed, network_speed_warning,
                                        now)
           down == check_alert_conditions(up.hist, "network_download",
                                          download_speed,
                                          network_speed_warning, now) IN
       AlertOutcome("network", "", << upload_speed, download_speed >>,
                    << GateCall("network_upload", upload_speed,
                                network_speed_warning, up.ret),
                       GateCall("network_download", download_speed,
                                network_speed_warning, down.ret) >>,
                    down.hist)

\* monitor_network_enhanced:
\* if (self.check_alert_conditions('network_upload', upload_speed, ...) or
\*     self.check_alert_conditions('network_download', download_speed, ...)):
\* the second call is made only when the first returned False.
NetworkAlert(upload_speed, download_speed) ==
    /\ "network" \in callers
    /\ LET up == check_alert_conditions(alert_history, "network_upload",
                                        upload_speed, network_speed_warning,
                                        now)
           down == check_alert_conditions(up.hist, "network_download",
                                          download_speed,
                                          network_speed_warning, now) IN
       IF up.ret
       THEN AlertOutcome("network", "", << upload_speed, download_speed >>,
                         << GateCall("network_upload", upload_speed,
                                     network_speed_warning, TRUE) >>,
                         up.hist)
       ELSE AlertOutcome("network", "", << upload_speed, download_speed >>,
                         << GateCall("network_upload", upload_speed,
                                     network_speed_warning, FALSE),
                            GateCall("network_download", download_speed,
                                     network_speed_warning, down.ret) >>,
                         down.hist)

\* --------------------------------------------------------------- SpecTools
\* SystemMonitor (realTimeTools/Tools.py): start_monitoring runs one of the
\* monitor_* loops in the calling thread; stop_monitoring may be called from
\* another thread at any time. self.monitor_thread is None throughout.

\* the monitor types start_monitoring knows
MonitorTypes == {"cpu", "memory", "network", "system", "applications"}
\* the values passed as monitor_type
MonitorTypeInputs == MonitorTypes \cup {"disk"}

toolsFrame == <<mainVars, stop_events, steps, histVars, gateVars, exportVars,
                readVars, diskVars, bankVars, net, work, client>>

\* SystemMonitor.__init__: self.monitoring = False
NewTools ==
    [pc |-> "idle", monitoring |-> FALSE, monitor_type |-> "", calls |-> 0,
     iterations |-> 0, ended |-> "none"]

\* start_monitoring: self.monitoring = True, then the loop of the monitor
\* type; for an unknown type two lines are printed and the call returns.
start_monitoring(monitor_type) ==
    /\ tools.pc = "idle"
    /\ tools.calls < MaxToolsCalls
    /\ tools' = [pc |-> IF monitor_type \in MonitorTypes THEN "loop" ELSE "idle",
                 monitoring |-> TRUE,
                 monitor_type |-> monitor_type,
                 calls |-> tools.calls + 1,
                 iterations |-> 0,
                 ended |-> IF monitor_type \in MonitorTypes THEN "none"
                           ELSE "unknown"]
    /\ UNCHANGED toolsFrame

\* while self.monitoring: (True) -> one iteration of the loop
ToolsIterate ==
    /\ tools.pc = "loop"
    /\ tools.monitoring
    /\ tools.iterations < MaxToolsIterations
    /\ tools' = [tools EXCEPT !.iterations = @ + 1]
    /\ UNCHANGED toolsFrame

\* while self.monitoring: (False) -> the loop, the monitor_* method and
\* start_monitoring return.
ToolsLoopExit ==
    /\ tools.pc = "loop"
    /\ ~tools.monitoring
    /\ tools' = [tools EXCEPT !.pc = "idle", !.ended = "flag"]
    /\ UNCHANGED toolsFrame

\* except KeyboardInterrupt: / except Exception as e: the handler logs and
\* prints; the monitor_* method and start_monitoring return.
ToolsLoopRaise(how) ==
    /\ tools.pc = "loop"
    /\ tools' = [tools EXCEPT !.pc = "idle", !.ended = how]
    /\ UNCHANGED toolsFrame

\* SystemMonitor.stop_monitoring: self.monitoring = False; no thread to wait
\* for.
tools_stop_monitoring ==
    /\ tools.calls > 0
    /\ tools' = [tools EXCEPT !.monitoring = FALSE]
    /\ UNCHANGED toolsFrame

\* ---------------------------------------------------------------- SpecWork
\* The producer/consumer program (多线程与并发编程/线程池与队列.py): one
\* producer thread, four consumers in a ThreadPoolExecutor, one queue.Queue
\* and the main thread. The script produces 20 tasks; NumTasks are followed.

\* ThreadPoolExecutor(max_workers=4), for _ in range(4)
NumConsumers == 4
Consumers == 1 .. NumConsumers
\* the end signal None, as a task id that no task has
NoneSentinel == -1

workFrame == <<mainVars, stop_events, steps, histVars, gateVars, exportVars,
               readVars, diskVars, bankVars, net, tools, client>>

\* task_queue = queue.Queue(); results = []; the producer thread started and
\* the four consumers submitted; the main thread at producer_thread.join().
NewWork ==
    [main |-> "join_producer",
     producer |-> [pc |-> "tasks", i |-> 0],
     task_queue |-> << >>,
     unfinished_tasks |-> 0,
     consumers |-> [c \in Consumers |-> [pc |-> "get", task_id |-> 0,
                                         sentinels |-> 0]],
     results |-> << >>]

\* Queue.put(item): the item is queued and unfinished_tasks is incremented.
QueuePut(w, item) ==
    [w EXCEPT !.task_queue = Append(@, item),
              !.unfinished_tasks = @ + 1]

\* producer: for i in range(num_tasks): task_queue.put(i)
ProducerPutTask ==
    /\ work.producer.pc = "tasks"
    /\ work.producer.i < NumTasks
    /\ work' = [QueuePut(work, work.producer.i) EXCEPT !.producer.i = @ + 1]
    /\ UNCHANGED workFrame

\* The first loop is over: for _ in range(4): ...
ProducerTasksDone ==
    /\ work.producer.pc = "tasks"
    /\ work.producer.i = NumTasks
    /\ work' = [work EXCEPT !.producer = [pc |-> "signals", i |-> 0]]
    /\ UNCHANGED workFrame

\* task_queue.put(None), four times; then the producer thread ends.
ProducerPutNone ==
    /\ work.producer.pc = "signals"
    /\ work' = IF work.producer.i < 4
               THEN [QueuePut(work, NoneSentinel) EXCEPT !.producer.i = @ + 1]
               ELSE [work EXCEPT !.producer.pc = "done"]
    /\ UNCHANGED workFrame

\* A get that returns the first item and leaves it in the queue.
ConsumerPeek(c) ==
    /\ work.consumers[c].pc = "get"
    /\ work.task_queue # << >>
    /\ LET item == Head(work.task_queue) IN
       work' = [work EXCEPT
                  !.consumers[c].task_id = item,
                  !.consumers[c].pc = IF item = NoneSentinel THEN "exited"
                                      ELSE "process",
                  !.consumers[c].sentinels =
                        IF item = NoneSentinel THEN @ + 1 ELSE @,
                  !.task_queue = IF item = NoneSentinel THEN Tail(@) ELSE @]
    /\ UNCHANGED workFrame

\* consumer: task_id = task_queue.get() blocks while the queue is empty and
\* removes the first item; if task_id is None: break.
ConsumerGet(c) ==
    /\ work.consumers[c].pc = "get"
    /\ work.task_queue # << >>
    /\ LET item == Head(work.task_queue) IN
       work' = [work EXCEPT
                  !.consumers[c].task_id = item,
                  !.consumers[c].pc = IF item = NoneSentinel THEN "exited"
                                      ELSE "process",
                  !.consumers[c].sentinels =
                        IF item = NoneSentinel THEN @ + 1 ELSE @,
                  !.task_queue = Tail(@)]
    /\ UNCHANGED workFrame

\* result = process_task(task_id); results.append(result)
ConsumerProcess(c) ==
    /\ work.consumers[c].pc = "process"
    /\ work' = [work EXCEPT
                  !.results = Append(@, [task_id |-> work.consumers[c].task_id,
                                         consumer |-> c]),
                  !.consumers[c].pc = "task_done"]
    /\ UNCHANGED workFrame

\* task_queue.task_done(): unfinished_tasks is decremented.
ConsumerTaskDone(c) ==
    /\ work.consumers[c].pc = "task_done"
    /\ work' = [work EXCEPT !.unfinished_tasks = @ - 1,
                            !.consumers[c].pc = "get"]
    /\ UNCHANGED workFrame

\* producer_thread.join() returns when the producer thread has ended.
MainJoinProducer ==
    /\ work.main = "join_producer"
    /\ work.producer.pc = "done"
    /\ work' = [work EXCEPT !.main = "join_queue"]
    /\ UNCHANGED workFrame

\* task_queue.join() returns when unfinished_tasks is 0.
MainJoinQueue ==
    /\ work.main = "join_queue"
    /\ work.unfinished_tasks = 0
    /\ work' = [work EXCEPT !.main = "shutdown"]
    /\ UNCHANGED workFrame

\* The with block is left: executor.shutdown(wait=True) returns when every
\* consumer has returned; the results are printed.
MainPrint ==
    /\ work.main = "shutdown"
    /\ \A c \in Consumers : work.consumers[c].pc = "exited"
    /\ work' = [work EXCEPT !.main = "printed"]
    /\ UNCHANGED workFrame

\* -------------------------------------------------------------- SpecClient
\* APIClient (带日志和异常处理的API请求器/demo.py).

clientFrame == <<mainVars, stop_events, steps, histVars, gateVars, exportVars,
                 readVars, diskVars, bankVars, net, tools, work>>

\* How an attempt of _request ends: the JSON of a 2xx response, an exception
\* of a class derived from requests.exceptions.RequestException (a timeout,
\* a status that is not 2xx), or any other exception.
AttemptOutcomes == {"ok", "Timeout", "HTTPError", "OtherError"}
RequestExceptions == {"Timeout", "HTTPError"}

\* APIClient(base_url, max_retries): no _request call made yet.
NewClient(max_retries) ==
    [pc |-> "idle", max_retries |-> max_retries, attempt |-> 0,
     outcomes |-> << >>, sleeps |-> << >>, result |-> "none"]

\* _request is called: for attempt in range(self.max_retries + 1):
RequestCall ==
    /\ client.pc = "idle"
    /\ client.outcomes = << >>
    /\ client' = [client EXCEPT !.pc = "attempt", !.attempt = 0]
    /\ UNCHANGED clientFrame

\* if attempt < self.max_retries:
MayRetryOnceMore(attempt, max_retries) == attempt <= max_retries

MayRetry(attempt, max_retries) == attempt < max_retries

\* One attempt: self.session.request(...), raise_for_status(), return
\* response.json(); except RequestException: sleep 2 ** attempt and go on if
\* attempt < max_retries, else raise. Any other exception leaves _request.
RequestAttempt(outcome) ==
    /\ client.pc = "attempt"
    /\ LET made == Append(client.outcomes, outcome) IN
       client' =
          IF outcome = "ok"
          THEN [client EXCEPT !.pc = "returned", !.outcomes = made,
                              !.result = <<"json", client.attempt>>]
          ELSE IF outcome \in RequestExceptions
                  /\ MayRetry(client.attempt, client.max_retries)
          THEN [client EXCEPT !.pc = "sleep", !.outcomes = made,
                              !.sleeps = Append(@, 2 ^ client.attempt)]
          ELSE [client EXCEPT !.pc = "raised", !.outcomes = made,
                              !.result = <<outcome, client.attempt>>]
    /\ UNCHANGED clientFrame

\* time.sleep(sleep_time) returns: the next attempt.
RequestWake ==
    /\ client.pc = "sleep"
    /\ client' = [client EXCEPT !.pc = "attempt", !.attempt = @ + 1]
    /\ UNCHANGED clientFrame

\* ------------------------------------------------------------- SpecLimiter
\* APIClient.rate_limiter and the make_request function it yields, called
\* from one thread; the time in ticks of half a second. _request is followed
\* in SpecClient; here a call of it issues its request at once.

\* rate_limiter(max_requests, per_second=1) before the with block is entered
NewLimiter(max_requests) ==
    [pc |-> "outside", max_requests |-> max_requests,
     per_second |-> 1 * TicksPerSecond, time |-> 0, start_time |-> 0,
     request_count |-> 0, wake |-> 0, issued |-> << >>]

\* Time passes.
LimiterTick ==
    /\ client.time < MaxLimiterTime
    /\ client' = [client EXCEPT !.time = @ + 1]
    /\ UNCHANGED clientFrame

\* with client.rate_limiter(...) as make_request:
\* start_time = time.time(); request_count = 0
LimiterEnter ==
    /\ client.pc = "outside"
    /\ client' = [client EXCEPT !.pc = "ready", !.start_time = client.time,
                                !.request_count = 0]
    /\ UNCHANGED clientFrame

\* request_count += 1; return self._request(endpoint, **kwargs)
Issue(c) ==
    [c EXCEPT !.pc = "ready", !.request_count = @ + 1,
              !.issued = Append(@, c.time)]

\* make_request(endpoint): elapsed = time.time() - start_time; if
\* request_count >= max_requests and elapsed < per_second: the sleep begins;
\* else the request is issued.
MakeRequest ==
    /\ client.pc = "ready"
    /\ Len(client.issued) < MaxLimiterCalls
    /\ LET elapsed == client.time - client.start_time IN
       client' = IF client.request_count >= client.max_requests
                    /\ elapsed < client.per_second
                 THEN [client EXCEPT !.pc = "sleep",
                                     !.wake = client.time
                                              + (client.per_second - elapsed)]
                 ELSE Issue(client)
    /\ UNCHANGED clientFrame

\* time.sleep(sleep_time) returns; the request is issued.
MakeRequestWake ==
    /\ client.pc = "sleep"
    /\ client.time >= client.wake
    /\ client' = Issue(client)
    /\ UNCHANGED clientFrame

\* ---------------------------------------------------------------- SpecBank
\* BankAccount (多线程与并发编程/线程同步与锁.py): two account_user threads
\* work through their lists of operations on one account.

\* self.balance = 1000
InitialBalance == 1000
\* t1, t2
BankUsers == {1, 2}
\* an operation of a list: a deposit (positive) or a withdrawal (negative)
Operations == {300, -700}

RECURSIVE OperationLists(_)
OperationLists(n) ==
    IF n = 0 THEN {<< >>}
    ELSE LET shorter == OperationLists(n - 1) IN
         shorter \cup {Append(ops, op) : ops \in shorter, op \in Operations}

NoOp == [kind |-> "none", amount |-> 0, ret |-> 0, before |-> 0, after |-> 0]

BankUser(ops) ==
    [ops |-> ops, pc |-> "idle", kind |-> "none", amount |-> 0,
     before |-> 0, new_balance |-> 0, ret |-> 0, last |-> NoOp,
     applied |-> 0]

\* operations1, operations2 of the script
ScriptOperations ==
    << << 200, -300, 500, -1000 >>, << 100, -200, 300, -400 >> >>

bankFrame == <<mainVars, stop_events, steps, histVars, gateVars, exportVars,
               readVars, diskVars, extraVars>>

\* with self.lock: entered whether or not the lock is free.
AcquireAnyway(u) == TRUE

\* with self.lock: the lock can be taken when no thread holds it.
CanAcquire(u) == lock = 0

\* account_user: for op in operations: deposit(op) if op > 0, else
\* withdraw(-op).
BankCall(u) ==
    /\ users[u].pc = "idle"
    /\ users[u].ops # << >>
    /\ LET op == Head(users[u].ops) IN
        users' = [users EXCEPT ![u].ops = Tail(@),
                               ![u].pc = "acquire",
                               ![u].kind = IF op > 0 THEN "deposit" ELSE "withdraw",
                               ![u].amount = IF op > 0 THEN op ELSE -op]
    /\ UNCHANGED <<bankFrame, balance, lock>>

\* The method body entered without taking the lock.
BankEnterUnlocked(u) ==
    /\ users[u].pc = "acquire"
    /\ users' = [users EXCEPT ![u].pc = IF users[u].kind = "deposit"
                                        THEN "read" ELSE "check",
                               ![u].before = balance]
    /\ UNCHANGED <<bankFrame, balance, lock>>

\* with self.lock: (entry)
BankAcquire(u) ==
    /\ users[u].pc = "acquire"
    /\ CanAcquire(u)
    /\ lock' = u
    /\ users' = [users EXCEPT ![u].pc = IF users[u].kind = "deposit"
                                        THEN "read" ELSE "check",
                               ![u].before = balance]
    /\ UNCHANGED <<bankFrame, balance>>

\* withdraw: if self.balance >= amount: ... else: return 0
WithdrawCheck(u) ==
    /\ users[u].pc = "check"
    /\ users' = IF balance >= users[u].amount
                THEN [users EXCEPT ![u].pc = "read"]
                ELSE [users EXCEPT ![u].pc = "release", ![u].ret = 0]
    /\ UNCHANGED <<bankFrame, balance, lock>>

\* new_balance = self.balance + amount (deposit), self.balance - amount
\* (withdraw); time.sleep(0.1) follows.
BankRead(u) ==
    /\ users[u].pc = "read"
    /\ users' = [users EXCEPT
                   ![u].pc = "write",
                   ![u].new_balance = IF users[u].kind = "deposit"
                                      THEN balance + users[u].amount
                                      ELSE balance - users[u].amount]
    /\ UNCHANGED <<bankFrame, balance, lock>>

\* self.balance = new_balance; withdraw returns amount, deposit None.
BankWrite(u) ==
    /\ users[u].pc = "write"
    /\ balance' = users[u].new_balance
    /\ users' = [users EXCEPT
                   ![u].pc = "release",
                   ![u].ret = IF users[u].kind = "withdraw"
                              THEN users[u].amount ELSE 0,
                   ![u].applied = IF users[u].kind = "withdraw"
                                  THEN @ - users[u].amount
                                  ELSE @ + users[u].amount]
    /\ UNCHANGED <<bankFrame, lock>>

\* The with block is left: the lock is released and the call returns.
BankRelease(u) ==
    /\ users[u].pc = "release"
    /\ lock' = IF lock = u THEN 0 ELSE lock
    /\ users' = [users EXCEPT
                   ![u].pc = "idle",
                   ![u].last = [kind |-> users[u].kind,
                                amount |-> users[u].amount,
                                ret |-> users[u].ret,
                                before |-> users[u].before,
                                after |-> balance]]
    /\ UNCHANGED <<bankFrame, balance>>

\* ---------------------------------------------------------- specifications
InitMain ==
    /\ monitoring = FALSE
    /\ monitor_threads = << >>
    /\ data_history = [k \in Kinds |-> << >>]
    /\ files = {}
    /\ stopPc = "idle"
    /\ call = NoCall
    /\ starts = 0
    /\ steps = 0
    /\ stop_events = << >>

InitHist ==
    /\ arrivals = << >>
    /\ target = "cpu"

InitAlertGate(loops) ==
    /\ now = 0
    /\ alert_history = [k \in {} |-> 0]
    /\ callers = loops
    /\ gate = [c \in loops |-> IdleGate]
    /\ lastGate = NoGate
    /\ recent = << >>
    /\ notified = << >>

\* The variables of the other specifications, at rest.
NoNet == [pc |-> "idle"]
NoTools == [pc |-> "idle"]
NoWork == [pc |-> "idle"]
NoClient == [pc |-> "idle"]

InitTimed ==
    /\ clock = 0
    /\ paths = [p \in {} |-> 0]
    /\ wake = [t \in {} |-> 0]
    /\ joining = 0
    /\ reader = [pc |-> "idle"]
    /\ diskPass = NoDiskPass

InitNoBank ==
    /\ InitTimed
    /\ net = NoNet
    /\ tools = NoTools
    /\ work = NoWork
    /\ client = NoClient

InitRest ==
    /\ InitNoBank
    /\ balance = 0
    /\ lock = 0
    /\ users = << >>

Init == InitMain /\ InitHist /\ InitAlertGate({}) /\ InitRest

InitHistory ==
    /\ InitMain
    /\ arrivals = << >>
    /\ target \in Kinds
    /\ InitAlertGate({})
    /\ InitRest

\* account = BankAccount(); each thread is given a list of at most MaxOps
\* operations.
InitBank ==
    /\ InitMain /\ InitHist /\ InitAlertGate({}) /\ InitNoBank
    /\ balance = InitialBalance
    /\ lock = 0
    /\ users \in [BankUsers -> {BankUser(ops) : ops \in OperationLists(MaxOps)}]

\* The script: t1 is given operations1, t2 operations2.
InitScript ==
    /\ InitMain /\ InitHist /\ InitAlertGate({}) /\ InitNoBank
    /\ balance = InitialBalance
    /\ lock = 0
    /\ users = [u \in BankUsers |-> BankUser(ScriptOperations[u])]

\* One run: each alert key is evaluated by the one loop of its metric.
InitAlert == InitMain /\ InitHist /\ InitAlertGate({1}) /\ InitRest

\* After a second start the CPU loops of both starts are alive and evaluate
\* the same key.
InitGate == InitMain /\ InitHist /\ InitAlertGate(1 .. MaxStarts) /\ InitRest

\* One loop of the run is followed; the cooldown map is empty at first.
InitKeys ==
    /\ InitMain /\ InitHist /\ InitRest
    /\ \E loop \in AlertLoops : InitAlertGate({loop})

\* The supervisor after construction, with the interval of its configuration.
InitNet ==
    /\ InitMain /\ InitHist /\ InitAlertGate({}) /\ InitTimed
    /\ balance = 0 /\ lock = 0 /\ users = << >>
    /\ \E interval \in Intervals : net = NewNet(interval)
    /\ tools = NoTools /\ work = NoWork /\ client = NoClient

\* A SystemMonitor after construction.
InitTools ==
    /\ InitMain /\ InitHist /\ InitAlertGate({}) /\ InitTimed
    /\ balance = 0 /\ lock = 0 /\ users = << >>
    /\ tools = NewTools
    /\ net = NoNet /\ work = NoWork /\ client = NoClient

InitWork ==
    /\ InitMain /\ InitHist /\ InitAlertGate({}) /\ InitTimed
    /\ balance = 0 /\ lock = 0 /\ users = << >>
    /\ work = NewWork
    /\ net = NoNet /\ tools = NoTools /\ client = NoClient

InitOthersAtRest ==
    /\ InitMain /\ InitHist /\ InitAlertGate({}) /\ InitTimed
    /\ balance = 0 /\ lock = 0 /\ users = << >>
    /\ net = NoNet /\ tools = NoTools /\ work = NoWork

\* APIClient(base_url, max_retries=3), or another number of retries.
InitClient ==
    /\ InitOthersAtRest
    /\ \E max_retries \in 0 .. MaxRetries : client = NewClient(max_retries)

\* rate_limiter(max_requests=5), or a smaller limit.
InitLimiter ==
    /\ InitOthersAtRest
    /\ \E max_requests \in 1 .. MaxLimit : client = NewLimiter(max_requests)

StartOnce == starts = 0 /\ start_comprehensive_monitoring

StartAgain == starts < MaxStarts /\ start_comprehensive_monitoring

Next ==
    \/ StartOnce
    \/ StopBegin
    \/ StopJoin
    \/ StopFinish
    \/ \E t \in DOMAIN monitor_threads : LoopExit(t) /\ UNCHANGED steps
    \/ \E t \in DOMAIN monitor_threads : CpuPoll(t) /\ UNCHANGED steps
    \/ \E t \in DOMAIN monitor_threads : CpuMeasure(t) /\ UNCHANGED steps
    \/ \E t \in DOMAIN monitor_threads : CpuPerCore(t) /\ UNCHANGED steps
    \/ \E t \in DOMAIN monitor_threads : SampleIterate(t) /\ UNCHANGED steps
    \/ \E t \in DOMAIN monitor_threads : DiskIterate(t) /\ UNCHANGED steps
    \/ \E t \in DOMAIN monitor_threads : NetWarm(t) /\ UNCHANGED steps
    \/ \E t \in DOMAIN monitor_threads : LoopWake(t) /\ UNCHANGED steps
    \/ \E t \in DOMAIN monitor_threads : ExportPoll(t) /\ UNCHANGED steps
    \/ \E t \in DOMAIN monitor_threads : ExportRecheck(t) /\ UNCHANGED steps
    \/ \E t \in DOMAIN monitor_threads : ExportRun(t) /\ UNCHANGED steps

\* SpecRestart explores MaxLoopSteps thread steps.
Budget == steps < MaxLoopSteps /\ steps' = steps + 1

NextRestart ==
    \/ StartAgain
    \/ StopBegin
    \/ StopJoin
    \/ StopFinish
    \/ \E t \in DOMAIN monitor_threads : LoopExit(t) /\ Budget
    \/ \E t \in DOMAIN monitor_threads : CpuPoll(t) /\ Budget
    \/ \E t \in DOMAIN monitor_threads : CpuMeasure(t) /\ Budget
    \/ \E t \in DOMAIN monitor_threads : CpuPerCore(t) /\ Budget
    \/ \E t \in DOMAIN monitor_threads : SampleIterate(t) /\ Budget
    \/ \E t \in DOMAIN monitor_threads : DiskIterate(t) /\ Budget
    \/ \E t \in DOMAIN monitor_threads : NetWarm(t) /\ Budget
    \/ \E t \in DOMAIN monitor_threads : LoopWake(t) /\ Budget
    \/ \E t \in DOMAIN monitor_threads : ExportPoll(t) /\ Budget
    \/ \E t \in DOMAIN monitor_threads : ExportRecheck(t) /\ Budget
    \/ \E t \in DOMAIN monitor_threads : ExportRun(t) /\ Budget

\* A start is called only before the first run or after a stop_monitoring
\* call has returned.
StartAfterStop ==
    /\ starts = 0 \/ (call.op = "stop" /\ call.status = "returned")
    /\ StartAgain

NextRerun ==
    \/ StartAfterStop
    \/ StopBegin
    \/ StopJoin
    \/ StopFinish
    \/ \E t \in DOMAIN monitor_threads : LoopExit(t) /\ Budget
    \/ \E t \in DOMAIN monitor_threads : CpuPoll(t) /\ Budget
    \/ \E t \in DOMAIN monitor_threads : CpuMeasure(t) /\ Budget
    \/ \E t \in DOMAIN monitor_threads : CpuPerCore(t) /\ Budget
    \/ \E t \in DOMAIN monitor_threads : SampleIterate(t) /\ Budget
    \/ \E t \in DOMAIN monitor_threads : DiskIterate(t) /\ Budget
    \/ \E t \in DOMAIN monitor_threads : NetWarm(t) /\ Budget
    \/ \E t \in DOMAIN monitor_threads : LoopWake(t) /\ Budget
    \/ \E t \in DOMAIN monitor_threads : ExportPoll(t) /\ Budget
    \/ \E t \in DOMAIN monitor_threads : ExportRecheck(t) /\ Budget
    \/ \E t \in DOMAIN monitor_threads : ExportRun(t) /\ Budget

\* One run with the time: the sampling loops that feed the exported buffers
\* (memory, network), the export loop and stop_monitoring.
NextExport ==
    \/ StartOnce
    \/ StopBegin
    \/ JoinStep
    \/ JoinReturn
    \/ TimedStopFinish
    \/ ClockTick2
    \/ \E t \in DOMAIN monitor_threads : LoopExit(t) /\ UNCHANGED steps
    \/ \E t \in DOMAIN monitor_threads : SampleIterate(t) /\ UNCHANGED steps
    \/ \E t \in DOMAIN monitor_threads : NetWarm(t) /\ UNCHANGED steps
    \/ \E t \in DOMAIN monitor_threads : LoopWake(t) /\ UNCHANGED steps
    \/ \E t \in DOMAIN monitor_threads : TimedExportPoll(t)
    \/ \E t \in DOMAIN monitor_threads : TimedExportRecheck(t)
    \/ \E t \in DOMAIN monitor_threads : TimedExportRun(t)

\* One run in which the disk loop alone is followed.
NextDisk ==
    \/ StartOnce
    \/ StopBegin
    \/ StopJoin
    \/ StopFinish
    \/ \E t \in DOMAIN monitor_threads : DiskList(t)
    \/ \E t \in DOMAIN monitor_threads : DiskUsage(t)
    \/ \E t \in DOMAIN monitor_threads : DiskSleep(t)
    \/ \E t \in DOMAIN monitor_threads :
          monitor_threads[t].kind = "disk" /\ LoopWake(t) /\ UNCHANGED steps
    \/ \E t \in DOMAIN monitor_threads :
          monitor_threads[t].kind = "disk" /\ LoopExit(t) /\ UNCHANGED steps

NextBank ==
    \/ \E u \in BankUsers : BankCall(u)
    \/ \E u \in BankUsers : BankAcquire(u)
    \/ \E u \in BankUsers : WithdrawCheck(u)
    \/ \E u \in BankUsers : BankRead(u)
    \/ \E u \in BankUsers : BankWrite(u)
    \/ \E u \in BankUsers : BankRelease(u)

NextRead ==
    \/ ReadAppend
    \/ \E who \in {"export", "summary"} : ReadBegin(who)
    \/ ReadNext
    \/ ReadEnd

NextGate ==
    \/ ClockTick
    \/ \E c \in callers, v \in Values : GateEnter(c, v)
    \/ \E c \in callers : GateCheck(c)
    \/ \E c \in callers : GateDecide(c)

NextKeys ==
    \/ ClockTick
    \/ \E value \in KeyValues, threshold \in Thresholds :
          CpuAlert(value, threshold)
    \/ \E partition \in Partitions, value \in KeyValues :
          DiskAlert(partition, value)
    \/ \E upload_speed \in Speeds, download_speed \in Speeds :
          NetworkAlert(upload_speed, download_speed)

\* One run in which the network loop alone is followed.
NextNet ==
    \/ StartOnce
    \/ StopBegin
    \/ StopJoin
    \/ StopFinish
    \/ NetTime
    \/ NetTraffic
    \/ \E t \in DOMAIN monitor_threads : NetSeed(t)
    \/ \E t \in DOMAIN monitor_threads : NetWarmEnd(t)
    \/ \E t \in DOMAIN monitor_threads : NetExit(t)
    \/ \E t \in DOMAIN monitor_threads : NetIterate(t)
    \/ \E t \in DOMAIN monitor_threads : NetWake(t)

NextTools ==
    \/ \E monitor_type \in MonitorTypeInputs : start_monitoring(monitor_type)
    \/ ToolsIterate
    \/ ToolsLoopExit
    \/ \E how \in {"KeyboardInterrupt", "Exception"} : ToolsLoopRaise(how)
    \/ tools_stop_monitoring

NextSample ==
    \/ SampleTick
    \/ \E c \in callers, value \in Values : SampleMeasure(c, value)
    \/ \E c \in callers : SampleStamp(c)
    \/ \E c \in callers : SampleAppend(c)
    \/ \E c \in callers : SampleAlert(c)

\* The steps of the producer and of the consumers, and those of the main
\* thread up to its call of task_queue.join(); MainJoinQueue and MainPrint
\* are the steps of the main thread from there on.
NextWork ==
    \/ ProducerPutTask
    \/ ProducerTasksDone
    \/ ProducerPutNone
    \/ \E c \in Consumers : ConsumerGet(c)
    \/ \E c \in Consumers : ConsumerProcess(c)
    \/ \E c \in Consumers : ConsumerTaskDone(c)
    \/ MainJoinProducer

NextClient ==
    \/ RequestCall
    \/ \E outcome \in AttemptOutcomes : RequestAttempt(outcome)
    \/ RequestWake

NextLimiter ==
    \/ LimiterTick
    \/ LimiterEnter
    \/ MakeRequest
    \/ MakeRequestWake

Spec == Init /\ [][Next]_vars

SpecRestart == Init /\ [][NextRestart]_vars

SpecHistory == InitHistory /\ [][HistoryAppend]_vars

SpecAlert == InitAlert /\ [][NextGate]_vars

SpecGate == InitGate /\ [][NextGate]_vars

SpecRerun == Init /\ [][NextRerun]_vars

SpecKeys == InitKeys /\ [][NextKeys]_vars

SpecNet == InitNet /\ [][NextNet]_vars

\* One run: the buffer has the one loop of its kind.
SpecSample == InitAlert /\ [][NextSample]_vars

\* After a second start the loops of both starts append to the buffer.
SpecSamples == InitGate /\ [][NextSample]_vars

SpecTools == InitTools /\ [][NextTools]_vars

SpecClient == InitClient /\ [][NextClient]_vars

SpecLimiter == InitLimiter /\ [][NextLimiter]_vars

\* Every thread that can take a step takes one in the end.
SpecWork == InitWork /\ [][NextWork]_vars /\ WF_vars(NextWork)

SpecExport == Init /\ [][NextExport]_vars

SpecRead == InitHistory /\ [][NextRead]_vars

SpecDisk == Init /\ [][NextDisk]_vars

SpecBank == InitBank /\ [][NextBank]_vars

SpecScript == InitScript /\ [][NextBank]_vars

\* The thread that called stop_monitoring keeps running: a join(timeout=5)
\* that can return does return, and so does the rest of the call. Nothing is
\* assumed of the loops, which may never take a step again.
SpecStop == Init /\ [][NextDisk]_vars /\ WF_vars(StopJoin) /\ WF_vars(StopFinish)

\* ------------------------------------------------------------------ claims

\* C1: a history buffer never holds more than its capacity, and once more
\* samples than the capacity have been appended it holds exactly the last
\* HistoryMaxLen appended samples, in arrival order.
C1_HistoryHoldsMostRecent ==
    LET d == data_history[target]
        n == Len(arrivals)
    IN  /\ Len(d) <= HistoryMaxLen
        /\ n > HistoryMaxLen => d = SubSeq(arrivals, n - HistoryMaxLen + 1, n)

\* Two samples more than the capacity were appended: the two oldest are gone.
C1_Witness ==
    /\ Len(arrivals) = HistoryMaxLen + 2
    /\ Head(data_history[target]) = 3
    /\ data_history[target][HistoryMaxLen] = HistoryMaxLen + 2

\* C2: of three consecutive calls made for one key with values above the
\* threshold, at times t, t + e (0 < e < cooldown) and later than
\* t + cooldown, the first fires (no alert was fired before it, or it is
\* known to have fired), the second is suppressed and the third fires.
C2_FiresSuppressedFires ==
    /\ \A i \in 1 .. Len(recent) : recent[i].first => recent[i].ret
    /\ ( /\ Len(recent) = 3
         /\ recent[1].ret
         /\ recent[2].t - recent[1].t > 0
         /\ recent[2].t - recent[1].t < alert_cooldown_seconds
         /\ recent[3].t - recent[1].t > alert_cooldown_seconds )
       => (~recent[2].ret /\ recent[3].ret)

\* Threshold 80, cooldown 300: 85 at t = 0 fired, 90 at t = 100 was
\* suppressed, 90 at t = 301 fired.
C2_Witness ==
    recent = << [t |-> 0, value |-> 85, ret |-> TRUE, first |-> TRUE],
                [t |-> 100, value |-> 90, ret |-> FALSE, first |-> FALSE],
                [t |-> 301, value |-> 90, ret |-> TRUE, first |-> FALSE] >>

\* C3: a call whose value equals the threshold never returns True, whatever
\* the cooldown map holds.
C3_EqualNeverFires ==
    (lastGate.done /\ lastGate.value = cpu_warning_threshold) => ~lastGate.ret

\* A call with value = threshold returned False although the key's cooldown
\* had run out.
C3_Witness ==
    /\ lastGate.done
    /\ lastGate.value = cpu_warning_threshold
    /\ lastGate.cool = "expired"
    /\ ~lastGate.ret

\* C4: two notifier invocations for one key are at least the cooldown apart.
C4_NotifiedOncePerCooldown ==
    Len(notified) = 2 => notified[2] - notified[1] >= alert_cooldown_seconds

\* C5: at every moment at most one live sampling loop per metric kind and at
\* most one live export loop exist (a start while running spawns none).
C5_OneLiveLoopPerKind ==
    \A k \in Kinds \cup {"export"} :
        Cardinality({t \in DOMAIN monitor_threads :
                        monitor_threads[t].kind = k /\ Alive(t)}) <= 1

\* C6: a stop_monitoring call made while idle and a start made while running
\* do not complete as a normal call.
C6_MisuseReported ==
    call.misuse => call.status # "returned"

\* C7: from the moment stop_monitoring has cleared it, and after it has
\* returned, the running flag is False; and no step of stop_monitoring
\* changes a history buffer.
C7_StopLeavesFlagFalseAndBuffers ==
    /\ [](call.op = "stop" => ~monitoring)
    /\ [][stopPc' # stopPc => data_history' = data_history]_vars

\* stop_monitoring has returned while sampling loops that have recorded
\* samples are still alive: the samples are still in the buffers.
C7_Witness ==
    /\ call = [op |-> "stop", misuse |-> FALSE, status |-> "returned"]
    /\ stopPc = "idle"
    /\ ~monitoring
    /\ Samples >= 2
    /\ \E t \in DOMAIN monitor_threads :
          monitor_threads[t].kind \in Kinds /\ Alive(t)

\* C8: a sampling loop enters at most one blocking call of one interval after
\* the running flag was cleared.
C8_ExitsWithinOneInterval ==
    \A t \in DOMAIN monitor_threads :
        monitor_threads[t].kind \in Kinds => monitor_threads[t].waited <= 1

\* C9: no sampling loop is ended by a failed sampling attempt.
C9_FailureKeepsLoop ==
    \A t \in DOMAIN monitor_threads :
        monitor_threads[t].kind \in Kinds => monitor_threads[t].pc # "failed"

\* A step that is one export pass: the one of stop_monitoring or one of the
\* export loop.
ExportPassStep ==
    \/ stopPc = "export" /\ stopPc' = "idle"
    \/ \E t \in DOMAIN monitor_threads :
          /\ monitor_threads[t].pc = "export"
          /\ monitor_threads'[t].pc # "export"

\* The step ends by an exception: of stop_monitoring or of a thread.
Raises ==
    \/ call'.status = "OSError" /\ call.status # "OSError"
    \/ \E t \in DOMAIN monitor_threads :
          monitor_threads'[t].pc = "failed" /\ monitor_threads[t].pc # "failed"

\* C10: an export pass that ends without an exception has written a file for
\* exactly the metrics whose buffer is non-empty.
C10_ExportWritesNonEmpty ==
    [][(ExportPassStep /\ ~Raises) =>
         \A k \in Kinds : (data_history[k] # << >>) <=> (k \in files')]_vars

\* C11: no file path is opened by more than one export pass.
C11_ExportPathsUnique ==
    \A p \in DOMAIN paths : paths[p] <= 1

\* C12: no export loop is ended by a failed export pass.
C12_ExportFailureKeepsLoops ==
    \A t \in DOMAIN monitor_threads :
        monitor_threads[t].kind = "export" => monitor_threads[t].pc # "failed"

\* stop_monitoring returns normally in this step.
StopReturns ==
    /\ stopPc = "export"
    /\ stopPc' = "idle"
    /\ call'.status = "returned"

\* C15: when stop_monitoring returns normally while a loop it has waited for
\* is still alive, it has reported a warning.
C15_AbandonedLoopWarned ==
    [][(StopReturns /\ \E t \in DOMAIN monitor_threads : Alive(t)) =>
         \E i \in DOMAIN stop_events' : stop_events'[i] = "warning"]_vars

\* C16: a stop_monitoring call makes no export pass before its waits are
\* over, and when it has ended it has cleared the flag, then waited, then
\* made exactly one export pass (and logged the stop unless the pass raised).
C16_OneFinalExport ==
    /\ (call.op = "stop" /\ stopPc = "join") => stop_events = << "flag" >>
    /\ (call.op = "stop" /\ stopPc = "export") =>
            stop_events = << "flag", "join" >>
    /\ (call.op = "stop" /\ stopPc = "idle") =>
            /\ ~monitoring
            /\ stop_events = << "flag", "join" >> \o StopTail(call.status # "returned")

\* stop_monitoring, called on a running supervisor, has returned; its one
\* export pass wrote the files of the non-empty cpu and memory buffers.
C16_Witness ==
    /\ call = [op |-> "stop", misuse |-> FALSE, status |-> "returned"]
    /\ stopPc = "idle"
    /\ stop_events = << "flag", "join", "export", "info" >>
    /\ files = {"cpu", "memory"}

\* C13: get_monitoring_summary raises nothing, holds no statistics block for
\* a metric whose buffer is empty, and every average it holds was divided by
\* a sample count that is not zero.
C13_SummaryOnEmptyBuffers ==
    LET summary == get_monitoring_summary IN
    \A k \in Kinds :
        /\ data_history[k] = << >> => k \notin DOMAIN summary.stats
        /\ k \in DOMAIN summary.stats =>
              /\ "error" \notin DOMAIN summary.stats[k]
              /\ summary.stats[k].avg.count > 0

\* Three buffers are empty and one holds the samples 1 and 2: the summary
\* has the statistics of that one alone.
C13_Witness ==
    /\ data_history[target] = << 1, 2 >>
    /\ \A k \in Kinds \ {target} : data_history[k] = << >>
    /\ DOMAIN get_monitoring_summary.stats = {target}
    /\ get_monitoring_summary.stats[target] =
          [min |-> 1, max |-> 2, avg |-> [sum |-> 3, count |-> 2]]
    /\ get_monitoring_summary.data_points[target] = 2

\* C14: a read of a history buffer never fails, and a read that is over has
\* seen the content the buffer had at one moment.
C14_ReadsConsistentSnapshot ==
    /\ reader.pc # "RuntimeError"
    /\ reader.pc = "done" => reader.seen = reader.content

\* C17: the alert count of the summary is the number of alerts fired so far
\* (notified holds the times of the last two: of all of them while fewer
\* than two were fired).
C17_AlertCountIsTotal ==
    LET alerts_triggered == get_monitoring_summary.alerts_triggered IN
    /\ Len(notified) < 2 => alerts_triggered = Len(notified)
    /\ Len(notified) = 2 => alerts_triggered >= 2

\* C18: a check_alert_conditions call with value <= threshold returns False
\* and leaves the cooldown map as it was.
C18_NoBreachLeavesMap ==
    [][\A c \in callers :
          ( /\ gate[c].pc # "idle"
            /\ gate'[c].pc = "idle"
            /\ gate[c].value <= cpu_warning_threshold )
          => (alert_history' = alert_history /\ ~lastGate'.ret)]_vars

\* A call with a value below the threshold returned False after the key's
\* cooldown had run out: the key still holds the time of the alert fired at
\* time 0.
C18_Witness ==
    /\ lastGate.done
    /\ lastGate.value < cpu_warning_threshold
    /\ lastGate.cool = "expired"
    /\ ~lastGate.ret
    /\ lastGate.t >= alert_cooldown_seconds
    /\ alert_history = [k \in {CpuKey} |-> 0]

\* The disk loop's thread.
DiskThreads == {t \in DOMAIN monitor_threads : monitor_threads[t].kind = "disk"}

\* Is partition p readable in the pass?
Readable(p) == p \notin diskPass.failed

\* C19: the disk loop is ended by no failure to read a partition (only by a
\* failure to list the partitions), and a pass that is over has appended one
\* sample for every partition that was readable, in the order of the list,
\* and none for the others.
C19_UnreadablePartitionSkipped ==
    /\ \A t \in DiskThreads :
          monitor_threads[t].pc = "failed" => diskPass.pc = "listfail"
    /\ diskPass.pc = "done" =>
          SubSeq(data_history["disk"], diskPass.base + 1,
                 Len(data_history["disk"]))
            = SelectSeq(PartitionList, Readable)

\* The second pass is over: sda1 could not be read, sdb1 was sampled and
\* appended after the two samples of the first pass, and the loop sleeps.
C19_Witness ==
    /\ diskPass.pc = "done"
    /\ diskPass.n = 2
    /\ diskPass.failed = {"sda1"}
    /\ data_history["disk"] = << "sda1", "sdb1", "sdb1" >>
    /\ \A t \in DiskThreads : monitor_threads[t].pc = "sleep"

\* C20: the balance is never negative, and a withdraw call that has returned
\* returned the amount and subtracted it if the balance it found under the
\* lock was at least the amount, and otherwise returned 0 and left the
\* balance as it was.
C20_WithdrawNeverOverdraws ==
    /\ balance >= 0
    /\ \A u \in DOMAIN users :
        LET w == users[u].last IN
        w.kind = "withdraw" =>
            IF w.before >= w.amount
            THEN w.ret = w.amount /\ w.after = w.before - w.amount
            ELSE w.ret = 0 /\ w.after = w.before

\* Both threads have withdrawn 700 from the balance of 1000: the first got
\* 700, the second found 300 under the lock, got 0 and left the 300.
C20_Witness ==
    /\ balance = 300
    /\ users[1].last = [kind |-> "withdraw", amount |-> 700, ret |-> 700,
                         before |-> 1000, after |-> 300]
    /\ users[2].last = [kind |-> "withdraw", amount |-> 700, ret |-> 0,
                         before |-> 300, after |-> 300]

\* C21: of the calls made for one key with a value above the threshold, no
\* two that returned True read their current_time less than the cooldown
\* apart, however the calls of concurrent callers interleave.
C21_OneTruePerWindow ==
    \A i, j \in 1 .. Len(recent) :
        (i < j /\ recent[i].ret /\ recent[j].ret)
            => recent[j].t - recent[i].t >= alert_cooldown_seconds

\* C22: in an iteration of the CPU loop the measurement window of
\* cpu_percent(interval) is the only wait: the loop is never found in a
\* second blocking call of one interval.
C22_CpuWaitsOnlyToMeasure ==
    \A t \in DOMAIN monitor_threads :
        monitor_threads[t].kind = "cpu"
            => monitor_threads[t].pc \notin {"percore", "sleep"}

\* C23: the export loop runs its export pass only at moments when
\* self.monitoring is True.
C23_PeriodicPassOnlyWhileMonitoring ==
    [][\A t \in DOMAIN monitor_threads :
          ( /\ monitor_threads[t].kind = "export"
            /\ monitor_threads[t].pc = "export"
            /\ monitor_threads'[t].pc # "export" ) => monitoring]_vars

\* C24: every stop_monitoring call that has begun ends, whether or not the
\* loops it waits for ever exit.
C24_StopTerminates ==
    (call.op = "stop" /\ call.status = "running") ~> (call.status # "running")

\* stop_monitoring returned after its waits while none of the five threads
\* of the run had exited.
C24_Witness ==
    /\ call.op = "stop"
    /\ call.status = "returned"
    /\ stop_events = << "flag", "join", "export", "info" >>
    /\ Len(monitor_threads) = Len(NewThreads)
    /\ \A t \in DOMAIN monitor_threads : Alive(t)

\* The threads spawned by a start before the latest one.
EarlierThreads ==
    {t \in DOMAIN monitor_threads : t <= Len(monitor_threads) - Len(NewThreads)}

\* C25: when every start but the first follows a stop_monitoring call that
\* has returned, no export loop of an earlier start that was asleep in its
\* export interval goes on to an export pass when it wakes.
C25_EarlierLoopsStayStopped ==
    [][\A t \in EarlierThreads :
          (monitor_threads[t].kind = "export" /\ monitor_threads[t].pc = "sleep")
              => monitor_threads'[t].pc # "export"]_vars

\* C26: a CPU breach evaluated with a threshold that has no entry of its own
\* in the cooldown map fires and is recorded under (metric, threshold), even
\* when the metric fired under another threshold less than the cooldown
\* before; the entries of all other keys stay as they were.
C26_KeyIncludesThreshold ==
    (lastGate.done /\ lastGate.loop = "cpu") =>
        LET c == lastGate.calls[1]
            key == << "cpu", c.threshold >> IN
        /\ (Breach(c.value, c.threshold) /\ key \notin DOMAIN lastGate.before)
              => ( /\ c.ret
                   /\ key \in DOMAIN alert_history
                   /\ alert_history[key] = lastGate.t )
        /\ \A k \in DOMAIN lastGate.before \ {key} :
              /\ k \in DOMAIN alert_history
              /\ alert_history[k] = lastGate.before[k]

\* The CPU alert fired under threshold 80 at time 0; at time 100 the value 95
\* is evaluated under threshold 90 and fires; the entry of threshold 80 is
\* still 0.
C26_Witness ==
    /\ lastGate.done
    /\ lastGate.loop = "cpu"
    /\ lastGate.calls = << GateCall("cpu", 95, 90, TRUE) >>
    /\ lastGate.t = 100
    /\ lastGate.before = (<< "cpu", 80 >> :> 0)
    /\ alert_history = (<< "cpu", 80 >> :> 0) @@ (<< "cpu", 90 >> :> 100)

\* C27: a call made less than the cooldown after the last alert of its key
\* returns False whatever the value; a breach evaluated the cooldown or more
\* after it fires.
C27_StrictCooldownTest ==
    (lastGate.done /\ lastGate.loop = "cpu") =>
        LET c == lastGate.calls[1]
            key == << "cpu", c.threshold >> IN
        key \in DOMAIN lastGate.before =>
            LET age == lastGate.t - lastGate.before[key] IN
            /\ age < alert_cooldown_seconds => ~c.ret
            /\ (age >= alert_cooldown_seconds /\ Breach(c.value, c.threshold))
                  => c.ret

\* A breach evaluated exactly alert_cooldown_seconds after the last alert of
\* its key fired.
C27_Witness ==
    /\ lastGate.done
    /\ lastGate.loop = "cpu"
    /\ << "cpu", lastGate.calls[1].threshold >> \in DOMAIN lastGate.before
    /\ lastGate.t - lastGate.before[<< "cpu", lastGate.calls[1].threshold >>]
          = alert_cooldown_seconds
    /\ lastGate.calls[1].ret

\* C28: a call that the cooldown suppresses returns False and leaves the
\* cooldown map as it was; and of the calls made with a value above the
\* threshold, the first one made the cooldown or more after the last alert
\* fires, however many were suppressed in between.
C28_SuppressedLeavesMap ==
    /\ [][\A c \in callers :
            ( /\ gate[c].pc = "check"
              /\ gate'[c].pc = "idle" )
                => (alert_history' = alert_history /\ ~lastGate'.ret)]_vars
    /\ [](\A i, j \in 1 .. Len(recent) :
            ( /\ i < j
              /\ recent[i].ret
              /\ \A k \in (i + 1) .. (j - 1) : ~recent[k].ret
              /\ recent[j].t - recent[i].t >= alert_cooldown_seconds )
                => recent[j].ret)

\* The alert fired at time 0; the breaches at 100 and 200 were suppressed and
\* left the entry at 0; the breach at 300 fired.
C28_Witness ==
    /\ notified = << 0, 300 >>
    /\ Len(recent) = 3
    /\ recent[1].t = 100 /\ ~recent[1].ret
    /\ recent[2].t = 200 /\ ~recent[2].ret
    /\ recent[3].t = 300 /\ recent[3].ret
    /\ alert_history[CpuKey] = 300

\* C29: two alerts of the disk loop are at least the cooldown apart, whichever
\* partitions they are about.
C29_DiskAlertsShareOneKey ==
    ("disk" \in callers /\ Len(notified) = 2)
        => notified[2].t - notified[1].t >= alert_cooldown_seconds

\* In one pass the alert fired for sda1; the breach of sdb1 evaluated next
\* was suppressed.
C29_Witness ==
    /\ notified = << [t |-> 0, part |-> "sda1"] >>
    /\ lastGate.done
    /\ lastGate.loop = "disk"
    /\ lastGate.part = "sdb1"
    /\ lastGate.t = 0
    /\ lastGate.calls = << GateCall("disk", 95, disk_warning_threshold, FALSE) >>
    /\ alert_history = (<< "disk", disk_warning_threshold >> :> 0)

\* C30: an iteration of the network loop evaluates the download check exactly
\* when its upload check returned False; when both speeds are above the
\* threshold and neither key is in its cooldown, the iteration notifies once,
\* records the time under the network_upload key and leaves the
\* network_download key as it was.
C30_DownloadOnlyAfterUploadFalse ==
    (lastGate.done /\ lastGate.loop = "network") =>
        LET calls == lastGate.calls
            upload == << "network_upload", network_speed_warning >>
            download == << "network_download", network_speed_warning >> IN
        /\ calls[1].metric = "network_upload"
        /\ Len(calls) = IF calls[1].ret THEN 1 ELSE 2
        /\ Len(calls) = 2 => calls[2].metric = "network_download"
        /\ ( /\ lastGate.inputs[1] > network_speed_warning
             /\ lastGate.inputs[2] > network_speed_warning
             /\ ~CooldownActive(lastGate.before, upload, lastGate.t)
             /\ ~CooldownActive(lastGate.before, download, lastGate.t) )
              => ( /\ Len(calls) = 1
                   /\ lastGate.notifications = 1
                   /\ alert_history = RecordAlert(lastGate.before, upload,
                                                  lastGate.t) )

\* Both keys had fired at time 0; at time 300 both speeds are above the
\* threshold: the upload check fired, no download check was made, and the
\* network_download entry is still 0.
C30_Witness ==
    /\ lastGate.done
    /\ lastGate.loop = "network"
    /\ lastGate.t = 300
    /\ lastGate.inputs = << network_speed_warning + 1, network_speed_warning + 1 >>
    /\ Len(lastGate.calls) = 1
    /\ lastGate.calls[1].ret
    /\ lastGate.notifications = 1
    /\ lastGate.before = (<< "network_upload", network_speed_warning >> :> 0)
                      @@ (<< "network_download", network_speed_warning >> :> 0)
    /\ alert_history = (<< "network_upload", network_speed_warning >> :> 300)
                    @@ (<< "network_download", network_speed_warning >> :> 0)

\* C31: no network sample exists before the loop has seeded its counters and
\* finished its warm-up wait; every sample's rate is the difference between
\* its reading and the reading taken just before it, over an elapsed time
\* that is positive and at least one interval; and a loop that finds the
\* flag False when its warm-up ends appends no sample.
C31_SeededWarmedRates ==
    LET samples == data_history["network"] IN
    /\ net.pc \in {"idle", "warmup"} => samples = << >>
    /\ ~net.flagAfterWarmup => samples = << >>
    /\ \A i \in DOMAIN samples :
          LET s == samples[i] IN
          /\ s.reading = i + 1
          /\ s.time_diff > 0
          /\ s.time_diff >= net.interval
          /\ s.time_diff = net.readings[i + 1].t - net.readings[i].t
          /\ s.bytes_sent_diff = net.readings[i + 1].bytes_sent
                                 - net.readings[i].bytes_sent

\* With an interval of one second (two ticks) the loop seeded its counters
\* at time 0 and appended its first sample one interval later, one byte
\* having been sent in between, and a second sample after that.
C31_Witness ==
    /\ net.interval = TicksPerSecond
    /\ Len(data_history["network"]) = 2
    /\ net.readings[1] = [t |-> 0, bytes_sent |-> 0]
    /\ data_history["network"][1] =
          [bytes_sent_diff |-> 1, time_diff |-> TicksPerSecond, reading |-> 2]
    /\ data_history["network"][2].time_diff >= TicksPerSecond

\* C34: whenever a start_monitoring call of SystemMonitor has returned, its
\* flag self.monitoring is False.
C34_FlagFalseAfterReturn ==
    (tools.calls > 0 /\ tools.pc = "idle") => ~tools.monitoring

\* The deposits made less the withdrawals that succeeded, over both threads
\* (applied is updated by the step that writes the balance).
Applied == users[1].applied + users[2].applied

BankDone == \A u \in BankUsers : users[u].pc = "idle" /\ users[u].ops = << >>

\* C37: the balance is always the initial balance plus the deposits made
\* less the withdrawals that succeeded; and when both threads of the script
\* have finished their lists, every operation took effect and the balance is
\* 200.
C37_NoLostUpdate ==
    /\ balance = InitialBalance + Applied
    /\ BankDone => ( /\ balance = 200
                     /\ users[1].applied = 200 - 300 + 500 - 1000
                     /\ users[2].applied = 100 - 200 + 300 - 400 )

\* Both threads finished; the last withdrawal of t1 took 1000 from a balance
\* that t2 had already changed.
C37_Witness ==
    /\ BankDone
    /\ balance = 200
    /\ users[1].last.kind = "withdraw"
    /\ users[1].last.ret = 1000
    /\ users[1].last.before = 1500

\* C32: when the alert test of an iteration is made, the iteration's sample
\* is already in the buffer: an alert that fires for a reading finds that
\* reading as the newest element.
C32_AppendedBeforeAlert ==
    lastGate.done =>
        /\ lastGate.buffer # << >>
        /\ LET newest == lastGate.buffer[Len(lastGate.buffer)] IN
           /\ newest.cpu_percent = lastGate.value
           /\ newest.loop = lastGate.loop
           /\ newest.timestamp <= lastGate.t

\* The alert fired for the reading 85, which was the second and newest
\* sample of the buffer.
C32_Witness ==
    /\ lastGate.done
    /\ lastGate.ret
    /\ lastGate.value = 85
    /\ Len(lastGate.buffer) = 2
    /\ lastGate.buffer[1].cpu_percent = 75
    /\ lastGate.buffer[2].cpu_percent = 85

\* C33: the samples of every history buffer are in the order of their
\* timestamps.
C33_TimestampsNonDecreasing ==
    \A k \in Kinds :
        \A i, j \in DOMAIN data_history[k] :
            i < j => data_history[k][i].timestamp <= data_history[k][j].timestamp

\* C35: the main thread's call of task_queue.join() returns in the end (and
\* with it the program goes on to shut the executor down and to print).
C35_ProgramTerminates == <>(ENABLED MainJoinQueue)

AllExited == \A c \in Consumers : work.consumers[c].pc = "exited"

\* C36: no task id is in results twice; once all consumers have exited,
\* results holds one entry for each of the NumTasks task ids, the queue is
\* empty and every consumer has taken exactly one None.
C36_EachTaskOnce ==
    /\ \A i, j \in DOMAIN work.results :
          i # j => work.results[i].task_id # work.results[j].task_id
    /\ AllExited =>
          /\ Len(work.results) = NumTasks
          /\ {work.results[i].task_id : i \in DOMAIN work.results}
                = 0 .. (NumTasks - 1)
          /\ work.task_queue = << >>
          /\ \A c \in Consumers : work.consumers[c].sentinels = 1

\* All consumers have exited; the three tasks were handled by three
\* consumers and finished out of order.
C36_Witness ==
    /\ AllExited
    /\ work.results = << [task_id |-> 1, consumer |-> 2],
                         [task_id |-> 2, consumer |-> 3],
                         [task_id |-> 0, consumer |-> 1] >>

\* C38: a _request call makes at most max_retries + 1 attempts; every
\* attempt but the last failed with a RequestException and was followed by a
\* sleep of 2^attempt seconds; the call returns the result of the first
\* attempt that succeeds, and it raises the error of attempt max_retries
\* when that attempt fails.
C38_BoundedRetries ==
    LET n == Len(client.outcomes) IN
    /\ n <= client.max_retries + 1
    /\ \A i \in 1 .. (n - 1) : client.outcomes[i] \in RequestExceptions
    /\ Len(client.sleeps) = IF client.pc \in {"returned", "raised"}
                            THEN n - 1 ELSE n
    /\ \A i \in DOMAIN client.sleeps : client.sleeps[i] = 2 ^ (i - 1)
    /\ client.pc = "returned"
          => (client.outcomes[n] = "ok" /\ client.result = <<"json", n - 1>>)
    /\ client.pc = "raised"
          => /\ client.result = <<client.outcomes[n], n - 1>>
             /\ client.outcomes[n] # "ok"
             /\ client.outcomes[n] \in RequestExceptions
                   => n = client.max_retries + 1

\* With max_retries = 3 four attempts failed; the call slept 1, 2 and 4
\* seconds and raised the error of the fourth attempt.
C38_Witness ==
    /\ client.max_retries = 3
    /\ client.pc = "raised"
    /\ client.outcomes = << "Timeout", "HTTPError", "Timeout", "HTTPError" >>
    /\ client.sleeps = << 1, 2, 4 >>
    /\ client.result = << "HTTPError", 3 >>

\* C39: of the requests issued through make_request, no more than
\* max_requests fall in any window of per_second seconds.
C39_RateLimitRespected ==
    \A i \in DOMAIN client.issued :
        Cardinality({j \in DOMAIN client.issued :
                        /\ j >= i
                        /\ client.issued[j] - client.issued[i]
                              < client.per_second})
            <= client.max_requests

====
